---- MODULE Spec2Model ----
(***************************************************************************)
(* VibeFi Studio: the on-chain event projection and governance-state       *)
(* reconstruction engine.                                                  *)
(*                                                                         *)
(*   - the chunked log retriever (getRawLogsChunkedByTopic/getLogsChunked) *)
(*   - listProposals         (decode, state read, sort)                    *)
(*   - getAccountVoteEvents + loadProposalRuntimeData                      *)
(*   - listDapps             (six streams, one timeline, fold)             *)
(*   - ProposalActionButtons (action gating)                               *)
(*                                                                         *)
(* The chain is an append-only ledger of logs behind the RPC surface; it   *)
(* grows by Mine* actions while the operations run against it.             *)
(***************************************************************************)
EXTENDS Integers, Sequences, FiniteSets, TLC

\* ------------------------------------------------------------------ bounds
\* Highest block the chain reaches.
MaxHead == 4
\* Most logs the governor's ledger holds.
MaxLogs == 3
\* Most events the registry's ledger holds.
MaxRegistryLogs == 2
\* Most vote logs the ledger holds when the runtime data is loaded.
MaxVoteLogs == 2
\* Most calls (target, calldata pairs) of a proposal.
MaxCalls == 2
\* Most ProposalCreated logs the ledger holds when a listing is repeated.
MaxRelistLogs == 2
\* Most governance refreshes the App starts.
MaxRefreshes == 3
\* Most transactions the App submits to the wallet.
MaxSubmissions == 2

\* Log indexes available inside one block.
LogSlots == {0, 1}

\* Window stride of the retriever. The program's value is 45_000n; the model
\* scales it down so that a range of MaxHead blocks spans several windows.
DEFAULT_LOG_CHUNK_SIZE == 1

\* A raw JSON quantity that is missing or not a "0x" string.
Undefined == -1

VARIABLES
  chainHead,   \* latest block number (pc.getBlockNumber)
  chainLogs,   \* every log of the chain, in chain order
  fetched,     \* last result of the chunked retriever
  listed,      \* last result of listProposals
  dappRows,    \* last result of listDapps
  runtime,     \* last result of loadProposalRuntimeData
  ui,          \* last rendering of ProposalActionButtons
  bundleRef,   \* last result of extractProposalBundleRef
  app          \* state of the App component and its handlers in flight

vars == <<chainHead, chainLogs, fetched, listed, dappRows, runtime, ui, bundleRef, app>>

\* ------------------------------------------------------------ small helpers
Range(s) == {s[i] : i \in DOMAIN s}

SeqsUpTo(S, n) == UNION {[1..k -> S] : k \in 0..n}

Min2(a, b) == IF a < b THEN a ELSE b

\* (b1, i1) lexicographically greater than (b2, i2)
PairGreater(b1, i1, b2, i2) == b1 > b2 \/ (b1 = b2 /\ i1 > i2)

\* ------------------------------------------------------------------- chain
\* A log as eth_getLogs returns it. block/index are its true position in the
\* chain (what the node filters on); blockNumber/logIndex are the raw JSON
\* fields handed to the program.
MkLog(payload, block, index) ==
  [topics      |-> payload.topics,
   data        |-> payload.data,
   block       |-> block,
   index       |-> index,
   blockNumber |-> IF payload.positioned THEN block ELSE Undefined,
   logIndex    |-> IF payload.positioned THEN index ELSE Undefined]

\* The chain appends one block holding the given payloads as its logs.
MineBlock(payloads) ==
  /\ chainHead < MaxHead
  /\ chainHead' = chainHead + 1
  /\ chainLogs' = chainLogs \o
        [i \in 1..Len(payloads) |-> MkLog(payloads[i], chainHead + 1, i - 1)]

\* how many logs the next block can hold, the ledger being capped at cap
Room(ledger, cap) == Min2(Cardinality(LogSlots), cap - Len(ledger))

\* topics filter of eth_getLogs: position i matches when the filter holds
\* null there or the same topic.
MatchesTopics(log, topics) ==
  /\ Len(log.topics) >= Len(topics)
  /\ \A i \in 1..Len(topics) : topics[i] = "null" \/ log.topics[i] = topics[i]

\* One eth_getLogs range query: the matching logs of blocks from..to, in
\* chain order.
EthGetLogs(ledger, topics, from, to) ==
  SelectSeq(ledger, LAMBDA l : l.block >= from /\ l.block <= to
                               /\ MatchesTopics(l, topics))

\* ------------------------------------------------- chunked log retriever
\* a window end one block further than the chunk size allows
WindowEndWide(start, latestBlock) ==
  IF start + DEFAULT_LOG_CHUNK_SIZE + 1 > latestBlock
    THEN latestBlock
    ELSE start + DEFAULT_LOG_CHUNK_SIZE + 1

\* end of the window that starts at start
WindowEnd(start, latestBlock) ==
  IF start + DEFAULT_LOG_CHUNK_SIZE > latestBlock
    THEN latestBlock
    ELSE start + DEFAULT_LOG_CHUNK_SIZE

NextStartSkip(end) == end + 2

\* start of the window after the one that ends at end
NextStart(end) == end + 1

\* What the node does to the range queries of one call: none fails, or the
\* query-th eth_getLogs for topic0 fails.
NoFailure == [topic0 |-> "", query |-> 0]

QueryFails(rpc, topics, query) == rpc.topic0 = topics[1] /\ rpc.query = query

RECURSIVE ChunkLoopPartial(_, _, _, _, _, _)
ChunkLoopPartial(ledger, topics, start, latestBlock, acc, rpc) ==
  IF ~(start <= latestBlock)
    THEN acc
    ELSE LET end   == WindowEnd(start, latestBlock)
             chunk == EthGetLogs(ledger, topics, start, end)
         IN  IF QueryFails(rpc, topics, Len(acc.windows) + 1)
               THEN [acc EXCEPT !.windows = Append(acc.windows, <<start, end>>)]
               ELSE ChunkLoopPartial(ledger, topics, NextStart(end), latestBlock,
                       [status  |-> "ok",
                        logs    |-> acc.logs \o chunk,
                        windows |-> Append(acc.windows, <<start, end>>)], rpc)

\* The for-loop: query window after window, pushing every chunk onto logs.
\* A failing query throws out of the loop: the call rejects, the logs pushed
\* so far are lost and no further window is queried.
RECURSIVE ChunkLoop(_, _, _, _, _, _)
ChunkLoop(ledger, topics, start, latestBlock, acc, rpc) ==
  IF ~(start <= latestBlock)
    THEN acc
    ELSE LET end   == WindowEnd(start, latestBlock)
             chunk == EthGetLogs(ledger, topics, start, end)
         IN  IF QueryFails(rpc, topics, Len(acc.windows) + 1)
               THEN [status  |-> "rejected",
                     logs    |-> <<>>,
                     windows |-> Append(acc.windows, <<start, end>>)]
               ELSE ChunkLoop(ledger, topics, NextStart(end), latestBlock,
                       [status  |-> "ok",
                        logs    |-> acc.logs \o chunk,
                        windows |-> Append(acc.windows, <<start, end>>)], rpc)

GetRawLogsChunkedByTopicDoWhile(ledger, latestBlock, fromBlock, topics, rpc) ==
  LET end == WindowEnd(fromBlock, latestBlock)
  IN  ChunkLoop(ledger, topics, NextStart(end), latestBlock,
                [status  |-> "ok",
                 logs    |-> EthGetLogs(ledger, topics, fromBlock, end),
                 windows |-> <<<<fromBlock, end>>>>], NoFailure)

\* getRawLogsChunkedByTopic / getLogsChunked: the head is read once, then the
\* range fromBlock..head is scanned in windows.
GetRawLogsChunkedByTopic(ledger, latestBlock, fromBlock, topics, rpc) ==
  IF fromBlock > latestBlock
    THEN [status |-> "ok", logs |-> <<>>, windows |-> <<>>]
    ELSE ChunkLoop(ledger, topics, fromBlock, latestBlock,
                   [status |-> "ok", logs |-> <<>>, windows |-> <<>>], rpc)

\* the failures a call scanning fromBlock..latestBlock for the given topic0s
\* can meet: one per range query it would issue
RpcFailures(topic0s, fromBlock, latestBlock) ==
  {[topic0 |-> t, query |-> k] :
     t \in topic0s,
     k \in 1..Len(GetRawLogsChunkedByTopic(<<>>, latestBlock, fromBlock,
                                           <<"">>, NoFailure).windows)}

\* ------------------------------------------------------------- governor ABI
Voters == {"alice", "bob"}

ProposalIds == {1, 2, 3}

STATE_NAMES ==
  <<"Pending", "Active", "Canceled", "Defeated",
    "Succeeded", "Queued", "Expired", "Executed">>

\* a lookup that counts the names from one
StateNameFromOne(stateNum) ==
  IF stateNum \in 1..Len(STATE_NAMES)
    THEN STATE_NAMES[stateNum]
    ELSE ToString(stateNum)

\* STATE_NAMES[Number(stateNum)] ?? String(stateNum)
StateName(stateNum) ==
  IF stateNum \in 0..(Len(STATE_NAMES) - 1)
    THEN STATE_NAMES[stateNum + 1]
    ELSE ToString(stateNum)

\* parseHexToBigint: 0n for anything that is not a "0x" string.
ParseHexToBigint(value) == IF value = Undefined THEN 0 ELSE value

\* decodeEventLog(strict) on a log: "ok" gives the args, "throws" is a log the
\* ABI does not decode, "badtype" decodes to args whose proposalId/proposer
\* (or weight, for a vote) have the wrong JavaScript type.
DecodeThrows(log) == log.data.decodes = "throws"

DecodeBadType(log) == log.data.decodes = "badtype"

\* ProposalCreated logs the governor can emit in block: voting starts one
\* block after creation and lasts two; the governor never creates the same
\* proposalId twice. blockNumber/logIndex are optional in the program's log
\* type: a provider may leave them out of a log.
ProposalCreatedPayloads(freeIds, block) ==
  {[topics     |-> <<"ProposalCreated">>,
    data       |-> [decodes |-> "ok", proposalId |-> p,
                    voteStart |-> block + 1, voteEnd |-> block + 3],
    positioned |-> b] : p \in freeIds, b \in BOOLEAN}
  \cup
  {[topics     |-> <<"ProposalCreated">>,
    data       |-> [decodes |-> d, proposalId |-> 0,
                    voteStart |-> 0, voteEnd |-> 0],
    positioned |-> TRUE] : d \in {"throws", "badtype"}}

\* proposalIds already created on the ledger
CreatedIds(ledger) ==
  {ledger[i].data.proposalId :
     i \in {k \in DOMAIN ledger : /\ ledger[k].topics[1] = "ProposalCreated"
                                  /\ ledger[k].data.decodes = "ok"}}

\* An authoritative contract read: a value, or a failed call.
ReadOk(v) == [ok |-> TRUE, value |-> v]

ReadFailed == [ok |-> FALSE, value |-> 0]

\* ----------------------------------------------------------- listProposals
\* first blocks a listing scans from (the deploy block of the contract)
ListFromBlocks == {0, 2}

\* state codes the governor answers with in the model: the first name,
\* Active, the last name and a code outside the eight names
StateCodes == {0, 1, 7, 8}

StateReadResults == {ReadOk(c) : c \in StateCodes} \cup {ReadFailed}

ProposalRowNoCatch(log, stateReads) ==
  IF DecodeThrows(log)
    THEN [rejected |-> TRUE, isNull |-> TRUE, row |-> <<>>]
  ELSE IF DecodeBadType(log) \/ ~stateReads[log.data.proposalId].ok
    THEN [rejected |-> FALSE, isNull |-> TRUE, row |-> <<>>]
  ELSE [rejected |-> FALSE, isNull |-> FALSE,
        row |-> [proposalId      |-> log.data.proposalId,
                 voteStart       |-> log.data.voteStart,
                 voteEnd         |-> log.data.voteEnd,
                 state           |-> StateName(stateReads[log.data.proposalId].value),
                 createdBlock    |-> ParseHexToBigint(log.blockNumber),
                 createdLogIndex |-> ParseHexToBigint(log.logIndex)]]

\* a callback that answers a failed state read with a record of state Pending
ProposalRowPendingOnFailedRead(log, stateReads) ==
  IF DecodeThrows(log) \/ DecodeBadType(log)
    THEN [rejected |-> FALSE, isNull |-> TRUE, row |-> <<>>]
  ELSE [rejected |-> FALSE, isNull |-> FALSE,
        row |-> [proposalId      |-> log.data.proposalId,
                 voteStart       |-> log.data.voteStart,
                 voteEnd         |-> log.data.voteEnd,
                 state           |-> IF stateReads[log.data.proposalId].ok
                                       THEN StateName(stateReads[log.data.proposalId].value)
                                       ELSE "Pending",
                 createdBlock    |-> ParseHexToBigint(log.blockNumber),
                 createdLogIndex |-> ParseHexToBigint(log.logIndex)]]

\* The async callback mapped over the logs: null for a log that does not
\* decode, has wrongly typed ids or whose state read fails (all inside the
\* try/catch), else the row with its creation position.
ProposalRow(log, stateReads) ==
  IF DecodeThrows(log) \/ DecodeBadType(log)
    THEN [rejected |-> FALSE, isNull |-> TRUE, row |-> <<>>]
  ELSE IF ~stateReads[log.data.proposalId].ok
    THEN [rejected |-> FALSE, isNull |-> TRUE, row |-> <<>>]
  ELSE [rejected |-> FALSE, isNull |-> FALSE,
        row |-> [proposalId      |-> log.data.proposalId,
                 voteStart       |-> log.data.voteStart,
                 voteEnd         |-> log.data.voteEnd,
                 state           |-> StateName(stateReads[log.data.proposalId].value),
                 createdBlock    |-> ParseHexToBigint(log.blockNumber),
                 createdLogIndex |-> ParseHexToBigint(log.logIndex)]]

CompareRowsNoLogIndex(a, b) ==
  IF a.createdBlock # b.createdBlock
    THEN (IF a.createdBlock > b.createdBlock THEN -1 ELSE 1)
  ELSE IF a.voteStart # b.voteStart
    THEN (IF a.voteStart > b.voteStart THEN -1 ELSE 1)
  ELSE IF a.proposalId # b.proposalId
    THEN (IF a.proposalId > b.proposalId THEN -1 ELSE 1)
  ELSE 0

\* the comparator handed to rows.sort
CompareRows(a, b) ==
  IF a.createdBlock # b.createdBlock
    THEN (IF a.createdBlock > b.createdBlock THEN -1 ELSE 1)
  ELSE IF a.createdLogIndex # b.createdLogIndex
    THEN (IF a.createdLogIndex > b.createdLogIndex THEN -1 ELSE 1)
  ELSE IF a.voteStart # b.voteStart
    THEN (IF a.voteStart > b.voteStart THEN -1 ELSE 1)
  ELSE IF a.proposalId # b.proposalId
    THEN (IF a.proposalId > b.proposalId THEN -1 ELSE 1)
  ELSE 0

\* Array.prototype.sort is stable: x goes behind every element that does not
\* compare greater than it.
RECURSIVE InsertRow(_, _)
InsertRow(x, sorted) ==
  IF sorted = <<>> THEN <<x>>
  ELSE IF CompareRows(x, Head(sorted)) < 0
    THEN <<x>> \o sorted
    ELSE <<Head(sorted)>> \o InsertRow(x, Tail(sorted))

RECURSIVE SortRows(_)
SortRows(rows) ==
  IF rows = <<>> THEN <<>>
  ELSE InsertRow(rows[Len(rows)], SortRows(SubSeq(rows, 1, Len(rows) - 1)))

\* rows.map(({ createdBlock, createdLogIndex, ...proposal }) => proposal)
StripCreated(row) ==
  [proposalId |-> row.proposalId, voteStart |-> row.voteStart,
   voteEnd |-> row.voteEnd, state |-> row.state]

\* The orders in which n concurrently started callbacks can complete:
\* order[k] is the input position of the k-th callback to complete.
CompletionOrders(n) ==
  {order \in [1..n -> 1..n] :
     \A i, j \in 1..n : i # j => order[i] # order[j]}

\* the order in which the callbacks were started
InputOrder(n) == [i \in 1..n |-> i]

\* Promise.all: each result is stored at the input position of its promise
\* when that promise settles; the array is handed over once all are stored.
RECURSIVE SettleAll(_, _, _, _)
SettleAll(results, order, k, values) ==
  IF k > Len(order) THEN values
  ELSE SettleAll(results, order, k + 1,
                 [values EXCEPT ![order[k]] = results[order[k]]])

PromiseAll(results, order) ==
  SettleAll(results, order, 1,
            [i \in DOMAIN results |->
               [rejected |-> FALSE, isNull |-> TRUE, row |-> <<>>]])

\* a listing that pushes each row when its callback completes and returns
\* the rows as pushed
ListProposalsAsCompleted(ledger, latestBlock, fromBlock, stateReads, rpc, order) ==
  LET scan    == GetRawLogsChunkedByTopic(ledger, latestBlock, fromBlock,
                                          <<"ProposalCreated">>, rpc)
      logs    == scan.logs
      results == [i \in DOMAIN logs |-> ProposalRow(logs[i], stateReads)]
      pushed  == [k \in DOMAIN logs |-> results[order[k]]]
      kept    == SelectSeq(pushed, LAMBDA r : ~r.isNull)
      rows    == [i \in DOMAIN kept |-> kept[i].row]
  IN  IF scan.status = "rejected"
        THEN [status |-> "rejected", rows |-> <<>>]
      ELSE IF \E i \in DOMAIN results : results[i].rejected
        THEN [status |-> "rejected", rows |-> <<>>]
        ELSE [status |-> "ok",
              rows   |-> [i \in DOMAIN rows |-> StripCreated(rows[i])]]

\* listProposals against one ledger, head and set of state-read outcomes,
\* with the callbacks completing in the given order. Promise.all rejects
\* when a callback rejects.
ListProposalsCompleting(ledger, latestBlock, fromBlock, stateReads, rpc, order) ==
  LET scan    == GetRawLogsChunkedByTopic(ledger, latestBlock, fromBlock,
                                          <<"ProposalCreated">>, rpc)
      logs    == scan.logs
      results == [i \in DOMAIN logs |-> ProposalRow(logs[i], stateReads)]
      rowsRaw == PromiseAll(results, order)
      kept    == SelectSeq(rowsRaw, LAMBDA r : ~r.isNull)
      rows    == [i \in DOMAIN kept |-> kept[i].row]
      sorted  == SortRows(rows)
  IN  IF scan.status = "rejected"
        THEN [status |-> "rejected", rows |-> <<>>]
      ELSE IF \E i \in DOMAIN results : results[i].rejected
        THEN [status |-> "rejected", rows |-> <<>>]
        ELSE [status |-> "ok",
              rows   |-> [i \in DOMAIN sorted |-> StripCreated(sorted[i])]]

\* the number of logs a listing maps its callbacks over
ScannedCount(ledger, latestBlock, fromBlock, rpc) ==
  Len(GetRawLogsChunkedByTopic(ledger, latestBlock, fromBlock,
                               <<"ProposalCreated">>, rpc).logs)

\* listProposals with the callbacks completing in the order they started
ListProposalsOf(ledger, latestBlock, fromBlock, stateReads, rpc) ==
  ListProposalsCompleting(ledger, latestBlock, fromBlock, stateReads, rpc,
                          InputOrder(ScannedCount(ledger, latestBlock,
                                                  fromBlock, rpc)))

\* ----------------------------------------------------------- registry ABI
\* the six event streams, in the order listDapps concatenates them
RegistryStreams ==
  <<"DappPublished", "DappUpgraded", "DappMetadata",
    "DappPaused", "DappUnpaused", "DappDeprecated">>

\* (dappId, versionId) pairs the registry events of the model address
RegistryTargets == {<<1, 1>>, <<1, 2>>, <<2, 1>>}

\* An optional field of a Version that was never set, and one never-set text.
UndefinedText == <<Undefined>>

\* The text payloads of the event at (block, index): each event carries its
\* own, so that a row shows which event wrote it. rootCid is the on-chain
\* byte string, zero-padded.
RawCid(block, index) == <<block, index + 1, 0>>

TextOf(tag, block, index) == <<tag, block, index>>

\* events that address version 0 of a dapp, the versionId a dapp has before
\* its first publish
VersionZeroEvents ==
  {[kind |-> kind, decodes |-> "ok", target |-> <<2, 0>>] :
      kind \in {"DappMetadata", "DappPaused"}}

\* Registry events the chain can hold: a kind and the (dappId, versionId) it
\* addresses; "throws" is a log decodeEventLog rejects.
RegistryEvents ==
  {[kind |-> kind, decodes |-> "ok", target |-> t] :
      kind \in Range(RegistryStreams), t \in RegistryTargets}
  \cup VersionZeroEvents
  \cup {[kind |-> "DappMetadata", decodes |-> "throws", target |-> <<0, 0>>]}

\* the log payload of a registry event at (block, index)
RegistryPayload(event, block, index) ==
  [topics     |-> <<event.kind>>,
   data       |-> [decodes     |-> event.decodes,
                   dappId      |-> event.target[1],
                   versionId   |-> event.target[2],
                   rootCid     |-> RawCid(block, index),
                   name        |-> TextOf(1, block, index),
                   version     |-> TextOf(2, block, index),
                   description |-> TextOf(3, block, index)],
   positioned |-> TRUE]

\* asBigIntQuantity on the hex quantities of a log: 0n for anything else
AsBigIntQuantity(value) == IF value = Undefined THEN 0 ELSE value

\* decodeCid: hexToString, then the trailing zero bytes are cut off
RECURSIVE StripTrailingZeros(_)
StripTrailingZeros(text) ==
  IF text = <<>> THEN <<>>
  ELSE IF text[Len(text)] = 0
    THEN StripTrailingZeros(SubSeq(text, 1, Len(text) - 1))
    ELSE text

DecodeCidKeepsPadding(value) == value

DecodeCid(value) == IF value = <<>> THEN <<>> ELSE StripTrailingZeros(value)

\* --------------------------------------------------------------- listDapps
CompareEntriesBlockOnly(a, b) ==
  AsBigIntQuantity(a.blockNumber) - AsBigIntQuantity(b.blockNumber)

\* the comparator of the timeline sort: block, then log index, ascending
CompareEntries(a, b) ==
  LET blockDiff == AsBigIntQuantity(a.blockNumber) - AsBigIntQuantity(b.blockNumber)
  IN  IF blockDiff # 0
        THEN blockDiff
        ELSE AsBigIntQuantity(a.logIndex) - AsBigIntQuantity(b.logIndex)

RECURSIVE InsertEntry(_, _)
InsertEntry(x, sorted) ==
  IF sorted = <<>> THEN <<x>>
  ELSE IF CompareEntries(x, Head(sorted)) < 0
    THEN <<x>> \o sorted
    ELSE <<Head(sorted)>> \o InsertEntry(x, Tail(sorted))

RECURSIVE SortEntries(_)
SortEntries(entries) ==
  IF entries = <<>> THEN <<>>
  ELSE InsertEntry(entries[Len(entries)],
                   SortEntries(SubSeq(entries, 1, Len(entries) - 1)))

\* the streams fetched one after the other and laid end to end
RECURSIVE ConcatStreams(_, _, _, _)
ConcatStreams(ledger, latestBlock, fromBlock, streams) ==
  IF streams = <<>> THEN <<>>
  ELSE GetRawLogsChunkedByTopic(ledger, latestBlock, fromBlock,
                                <<Head(streams)>>, NoFailure).logs
       \o ConcatStreams(ledger, latestBlock, fromBlock, Tail(streams))

\* the streams laid end to end when the scan of stream i read the head
\* heads[i]: each getLogsChunked awaits its own pc.getBlockNumber()
RECURSIVE ConcatStreamsAt(_, _, _, _)
ConcatStreamsAt(ledger, heads, fromBlock, streams) ==
  IF streams = <<>> THEN <<>>
  ELSE GetRawLogsChunkedByTopic(ledger, Head(heads), fromBlock,
                                <<Head(streams)>>, NoFailure).logs
       \o ConcatStreamsAt(ledger, Tail(heads), fromBlock, Tail(streams))

\* Promise.all over the streams rejects when one of the scans rejects
StreamsRejected(ledger, latestBlock, fromBlock, streams, rpc) ==
  \E i \in DOMAIN streams :
     GetRawLogsChunkedByTopic(ledger, latestBlock, fromBlock,
                              <<streams[i]>>, rpc).status = "rejected"

\* a Version as getVersion creates it: only versionId is set
NewVersion(versionId) ==
  [versionId |-> versionId, rootCid |-> UndefinedText, name |-> UndefinedText,
   version |-> UndefinedText, description |-> UndefinedText,
   status |-> "undefined"]

NewDapp(dappId) ==
  [dappId |-> dappId, latestVersionId |-> 0, versions |-> <<>>]

\* position of the dapp in the Map (insertion order), 0 when absent
DappIndex(dapps, dappId) ==
  IF \E k \in DOMAIN dapps : dapps[k].dappId = dappId
    THEN CHOOSE k \in DOMAIN dapps : dapps[k].dappId = dappId
    ELSE 0

PutVersion(versions, versionId, version) ==
  [v \in (DOMAIN versions) \cup {versionId} |->
     IF v = versionId THEN version ELSE versions[v]]

GetVersionFresh(dapps, dappId, versionId) == NewVersion(versionId)

\* getVersion: the version record of (dappId, versionId), created with only
\* its versionId when the dapp or the version is absent
GetVersion(dapps, dappId, versionId) ==
  LET k    == DappIndex(dapps, dappId)
      dapp == IF k = 0 THEN NewDapp(dappId) ELSE dapps[k]
  IN  IF versionId \in DOMAIN dapp.versions
        THEN dapp.versions[versionId]
        ELSE NewVersion(versionId)

\* a write that moves latestVersionId only upwards
SetVersionLatestNeverDecreases(dapps, dappId, versionId, version, latest) ==
  LET k     == DappIndex(dapps, dappId)
      dapp  == IF k = 0 THEN NewDapp(dappId) ELSE dapps[k]
      dapp2 == [dappId          |-> dapp.dappId,
                latestVersionId |-> IF latest = Undefined \/ latest < dapp.latestVersionId
                                      THEN dapp.latestVersionId ELSE latest,
                versions        |-> PutVersion(dapp.versions, versionId, version)]
  IN  IF k = 0 THEN Append(dapps, dapp2) ELSE [dapps EXCEPT ![k] = dapp2]

\* a write that also makes the written version the dapp's latest
SetVersionAdvancesLatest(dapps, dappId, versionId, version, latest) ==
  LET k     == DappIndex(dapps, dappId)
      dapp  == IF k = 0 THEN NewDapp(dappId) ELSE dapps[k]
      dapp2 == [dappId          |-> dapp.dappId,
                latestVersionId |-> versionId,
                versions        |-> PutVersion(dapp.versions, versionId, version)]
  IN  IF k = 0 THEN Append(dapps, dapp2) ELSE [dapps EXCEPT ![k] = dapp2]

\* the Map after getVersion and the writes of one branch of the fold: the
\* dapp is inserted when absent, the version record is the written one, and
\* latest (when not Undefined) becomes the dapp's latestVersionId
SetVersion(dapps, dappId, versionId, version, latest) ==
  LET k     == DappIndex(dapps, dappId)
      dapp  == IF k = 0 THEN NewDapp(dappId) ELSE dapps[k]
      dapp2 == [dappId          |-> dapp.dappId,
                latestVersionId |-> IF latest = Undefined
                                      THEN dapp.latestVersionId ELSE latest,
                versions        |-> PutVersion(dapp.versions, versionId, version)]
  IN  IF k = 0 THEN Append(dapps, dapp2) ELSE [dapps EXCEPT ![k] = dapp2]

\* a fold whose status events write the dapp's latest version instead of
\* the addressed one
ApplyEntryStatusOnLatest(dapps, log) ==
  LET kind    == log.topics[1]
      args    == log.data
      k       == DappIndex(dapps, args.dappId)
      latest  == IF k = 0 THEN args.versionId ELSE dapps[k].latestVersionId
      version == GetVersion(dapps, args.dappId, args.versionId)
      shown   == GetVersion(dapps, args.dappId, latest)
  IN  IF kind \in {"DappPublished", "DappUpgraded"}
        THEN SetVersion(dapps, args.dappId, args.versionId,
               [version EXCEPT !.rootCid = DecodeCid(args.rootCid),
                               !.status = "Published"],
               args.versionId)
      ELSE IF kind = "DappMetadata"
        THEN SetVersion(dapps, args.dappId, args.versionId,
               [version EXCEPT !.name = args.name,
                               !.version = args.version,
                               !.description = args.description],
               Undefined)
      ELSE IF kind = "DappPaused"
        THEN SetVersion(dapps, args.dappId, latest,
               [shown EXCEPT !.status = "Paused"], Undefined)
      ELSE IF kind = "DappUnpaused"
        THEN SetVersion(dapps, args.dappId, latest,
               [shown EXCEPT !.status = "Published"], Undefined)
      ELSE IF kind = "DappDeprecated"
        THEN SetVersion(dapps, args.dappId, latest,
               [shown EXCEPT !.status = "Deprecated"], Undefined)
      ELSE dapps

\* one iteration of the fold over the timeline
ApplyEntry(dapps, log) ==
  LET kind    == log.topics[1]
      args    == log.data
      version == GetVersion(dapps, args.dappId, args.versionId)
  IN  IF kind \in {"DappPublished", "DappUpgraded"}
        THEN SetVersion(dapps, args.dappId, args.versionId,
               [version EXCEPT !.rootCid = DecodeCid(args.rootCid),
                               !.status = "Published"],
               args.versionId)
      ELSE IF kind = "DappMetadata"
        THEN SetVersion(dapps, args.dappId, args.versionId,
               [version EXCEPT !.name = args.name,
                               !.version = args.version,
                               !.description = args.description],
               Undefined)
      ELSE IF kind = "DappPaused"
        THEN SetVersion(dapps, args.dappId, args.versionId,
               [version EXCEPT !.status = "Paused"], Undefined)
      ELSE IF kind = "DappUnpaused"
        THEN SetVersion(dapps, args.dappId, args.versionId,
               [version EXCEPT !.status = "Published"], Undefined)
      ELSE IF kind = "DappDeprecated"
        THEN SetVersion(dapps, args.dappId, args.versionId,
               [version EXCEPT !.status = "Deprecated"], Undefined)
      ELSE dapps

RECURSIVE FoldEntries(_, _)
FoldEntries(dapps, timeline) ==
  IF timeline = <<>> THEN dapps
  ELSE FoldEntries(ApplyEntry(dapps, Head(timeline)), Tail(timeline))

TextOr(value, default) == IF value = UndefinedText THEN default ELSE value

DappRowOfHighestVersion(dapp) ==
  LET highest == IF DOMAIN dapp.versions = {} THEN dapp.latestVersionId
                 ELSE CHOOSE v \in DOMAIN dapp.versions :
                        \A w \in DOMAIN dapp.versions : w <= v
      latest  == IF highest \in DOMAIN dapp.versions
                   THEN dapp.versions[highest] ELSE NewVersion(highest)
  IN  [dappId      |-> dapp.dappId,
       versionId   |-> highest,
       name        |-> TextOr(latest.name, <<>>),
       version     |-> TextOr(latest.version, <<>>),
       description |-> TextOr(latest.description, <<>>),
       status      |-> IF latest.status = "undefined" THEN "Unknown"
                                                      ELSE latest.status,
       rootCid     |-> TextOr(latest.rootCid, <<>>)]

\* a row that shows the highest recorded version when the dapp has no
\* record for latestVersionId
DappRowOfRecordedFallback(dapp) ==
  LET known   == dapp.latestVersionId \in DOMAIN dapp.versions
      highest == IF DOMAIN dapp.versions = {} THEN dapp.latestVersionId
                 ELSE CHOOSE v \in DOMAIN dapp.versions :
                        \A w \in DOMAIN dapp.versions : w <= v
      latest  == IF known THEN dapp.versions[dapp.latestVersionId]
                 ELSE IF highest \in DOMAIN dapp.versions
                   THEN dapp.versions[highest]
                   ELSE NewVersion(dapp.latestVersionId)
  IN  [dappId      |-> dapp.dappId,
       versionId   |-> dapp.latestVersionId,
       name        |-> TextOr(latest.name, <<>>),
       version     |-> TextOr(latest.version, <<>>),
       description |-> TextOr(latest.description, <<>>),
       status      |-> IF latest.status = "undefined" THEN "Unknown"
                                                      ELSE latest.status,
       rootCid     |-> TextOr(latest.rootCid, <<>>)]

\* the row of one dapp: versions[latestVersionId], with defaults
DappRowOf(dapp) ==
  LET known  == dapp.latestVersionId \in DOMAIN dapp.versions
      latest == IF known THEN dapp.versions[dapp.latestVersionId]
                         ELSE NewVersion(dapp.latestVersionId)
  IN  [dappId      |-> dapp.dappId,
       versionId   |-> dapp.latestVersionId,
       name        |-> TextOr(latest.name, <<>>),
       version     |-> TextOr(latest.version, <<>>),
       description |-> TextOr(latest.description, <<>>),
       status      |-> IF latest.status = "undefined" THEN "Unknown"
                                                      ELSE latest.status,
       rootCid     |-> TextOr(latest.rootCid, <<>>)]

RowsOfDapps(dapps) == [k \in DOMAIN dapps |-> DappRowOf(dapps[k])]

\* listDapps when no range query fails and the scan of stream i read the head
\* heads[i]
ListDappsAtHeads(ledger, heads, fromBlock, streams) ==
  LET all == SortEntries(ConcatStreamsAt(ledger, heads, fromBlock, streams))
  IN  IF \E i \in DOMAIN all : DecodeThrows(all[i])
        THEN [status |-> "rejected", rows |-> <<>>]
        ELSE [status |-> "ok", rows |-> RowsOfDapps(FoldEntries(<<>>, all))]

\* listDapps against one ledger and head, the streams concatenated in the
\* given order. decodeEventLog is called outside any try/catch: a log that
\* does not decode rejects the call.
ListDappsOf(ledger, latestBlock, fromBlock, streams, rpc) ==
  LET all == SortEntries(ConcatStreams(ledger, latestBlock, fromBlock, streams))
  IN  IF StreamsRejected(ledger, latestBlock, fromBlock, streams, rpc)
        THEN [status |-> "rejected", rows |-> <<>>]
      ELSE IF \E i \in DOMAIN all : DecodeThrows(all[i])
        THEN [status |-> "rejected", rows |-> <<>>]
        ELSE [status |-> "ok", rows |-> RowsOfDapps(FoldEntries(<<>>, all))]

\* ------------------------------------------------------ vote-cast events
\* the two vote-cast shapes, in the order getAccountVoteEvents lays them out
VoteStreams == <<"VoteCast", "VoteCastWithParams">>

\* proposals the runtime loader is asked about
RuntimeProposalIds == {1, 2}

\* Vote logs the chain can hold: topics are [topic0, voter]. "throws" is a
\* log the ABI does not decode, "badtype" one whose proposalId/weight do not
\* decode to bigint.
VoteEvents ==
  {[kind |-> k, voter |-> "alice", decodes |-> "ok", proposalId |-> p] :
      k \in Range(VoteStreams), p \in RuntimeProposalIds}
  \cup {[kind |-> "VoteCast", voter |-> "bob", decodes |-> "ok", proposalId |-> 1],
        [kind |-> "VoteCast", voter |-> "alice", decodes |-> "throws", proposalId |-> 0],
        [kind |-> "VoteCast", voter |-> "alice", decodes |-> "badtype", proposalId |-> 1]}

\* The log payload of a vote at (block, index). Each vote carries its own
\* weight and a support value set by its position (3 is no known direction),
\* so that a record shows which event it was read from.
VotePayload(event, block, index) ==
  [topics     |-> <<event.kind, event.voter>>,
   data       |-> [decodes    |-> event.decodes,
                   proposalId |-> event.proposalId,
                   support    |-> (block + index) % 4,
                   weight     |-> 10 * block + index + 1],
   positioned |-> TRUE]

\* voteDirectionFromSupport
VoteDirectionFromSupport(n) ==
  IF n = 0 THEN "against"
  ELSE IF n = 1 THEN "for"
  ELSE IF n = 2 THEN "abstain"
  ELSE "null"

\* ---------------------------------------------------- getAccountVoteEvents
\* the AccountVoteEvent read from a decoded log
AccountVoteEvent(log) ==
  [proposalId  |-> log.data.proposalId,
   support     |-> VoteDirectionFromSupport(log.data.support),
   weight      |-> log.data.weight,
   blockNumber |-> ParseHexToBigint(log.blockNumber),
   logIndex    |-> ParseHexToBigint(log.logIndex)]

PutVote(out, key, event) ==
  [k \in (DOMAIN out) \cup {key} |-> IF k = key THEN event ELSE out[k]]

AccountVoteStepLastSeen(out, log) ==
  IF DecodeThrows(log) \/ DecodeBadType(log)
    THEN out
    ELSE PutVote(out, log.data.proposalId, AccountVoteEvent(log))

\* one iteration of the loop over the vote logs: the event replaces the one
\* kept for its proposalId when none is kept or its (blockNumber, logIndex)
\* is greater
AccountVoteStep(out, log) ==
  IF DecodeThrows(log) \/ DecodeBadType(log)
    THEN out
    ELSE LET event == AccountVoteEvent(log)
             key   == event.proposalId
         IN  IF \/ key \notin DOMAIN out
                \/ event.blockNumber > out[key].blockNumber
                \/ /\ event.blockNumber = out[key].blockNumber
                   /\ event.logIndex > out[key].logIndex
               THEN PutVote(out, key, event)
               ELSE out

RECURSIVE FoldVotes(_, _)
FoldVotes(out, logs) ==
  IF logs = <<>> THEN out
  ELSE FoldVotes(AccountVoteStep(out, Head(logs)), Tail(logs))

\* getAccountVoteEvents: both shapes fetched with the voter topic, plain
\* casts first, then folded into a Map keyed by proposalId
GetAccountVoteEvents(ledger, latestBlock, voter, fromBlock, rpc) ==
  LET voteCast ==
        GetRawLogsChunkedByTopic(ledger, latestBlock, fromBlock,
                                 <<VoteStreams[1], voter>>, rpc)
      voteCastWithParams ==
        GetRawLogsChunkedByTopic(ledger, latestBlock, fromBlock,
                                 <<VoteStreams[2], voter>>, rpc)
  IN  IF voteCast.status = "rejected" \/ voteCastWithParams.status = "rejected"
        THEN [status |-> "rejected", out |-> <<>>]
        ELSE [status |-> "ok",
              out |-> FoldVotes(<<>>, voteCast.logs \o voteCastWithParams.logs)]

\* ------------------------------------------------- loadProposalRuntimeData
\* timestamp of a block (pc.getBlock)
BlockTimestamp(blockNumber) == 12 * blockNumber

\* the five authoritative reads of one proposal
ReadNames == {"state", "snapshot", "deadline", "eta", "hasVoted"}

AllReadsOk(reads) == \A r \in ReadNames : reads[r].ok

\* the hasVoted promise: the contract read, or false without an account
HasVotedRead(account, reads) ==
  IF account = "null" THEN ReadOk(FALSE) ELSE reads.hasVoted

\* the degraded record built from the proposal's own fields
Fallback(proposal) ==
  [proposalId    |-> proposal.proposalId,
   state         |-> proposal.state,
   snapshotBlock |-> proposal.voteStart,
   deadlineBlock |-> proposal.voteEnd,
   etaSeconds    |-> 0,
   hasVoted      |-> FALSE,
   voteDirection |-> "null",
   voteWeight    |-> Undefined]

\* the record built from the reads and the vote kept for the proposal
Enriched(proposal, reads, hasVoted, accountVotes) ==
  LET key   == proposal.proposalId
      found == key \in DOMAIN accountVotes
  IN  [proposalId    |-> proposal.proposalId,
       state         |-> StateName(reads.state.value),
       snapshotBlock |-> reads.snapshot.value,
       deadlineBlock |-> reads.deadline.value,
       etaSeconds    |-> reads.eta.value,
       hasVoted      |-> hasVoted,
       voteDirection |-> IF hasVoted /\ found
                           THEN accountVotes[key].support ELSE "null",
       voteWeight    |-> IF hasVoted /\ found
                           THEN accountVotes[key].weight ELSE Undefined]

RuntimeEntryNoCatch(proposal, reads, account, accountVotes) ==
  LET hasVotedRead == HasVotedRead(account, reads)
  IN  IF AllReadsOk([reads EXCEPT !.hasVoted = hasVotedRead])
        THEN [rejected |-> FALSE, key |-> proposal.proposalId,
              info |-> Enriched(proposal, reads, hasVotedRead.value, accountVotes)]
        ELSE [rejected |-> TRUE, key |-> proposal.proposalId,
              info |-> Fallback(proposal)]

RuntimeEntryUngated(proposal, reads, account, accountVotes) ==
  LET hasVotedRead == HasVotedRead(account, reads)
  IN  IF AllReadsOk([reads EXCEPT !.hasVoted = hasVotedRead])
        THEN [rejected |-> FALSE, key |-> proposal.proposalId,
              info |-> [Enriched(proposal, reads, TRUE, accountVotes)
                          EXCEPT !.hasVoted = hasVotedRead.value]]
        ELSE [rejected |-> FALSE, key |-> proposal.proposalId,
              info |-> Fallback(proposal)]

RuntimeEntryGuessing(proposal, reads, account, accountVotes) ==
  LET hasVotedRead == HasVotedRead(account, reads)
      info         == Enriched(proposal, reads, hasVotedRead.value, accountVotes)
  IN  IF AllReadsOk([reads EXCEPT !.hasVoted = hasVotedRead])
        THEN [rejected |-> FALSE, key |-> proposal.proposalId,
              info |-> IF info.hasVoted /\ info.voteDirection = "null"
                         THEN [info EXCEPT !.voteDirection = "for"]
                         ELSE info]
        ELSE [rejected |-> FALSE, key |-> proposal.proposalId,
              info |-> Fallback(proposal)]

\* the async callback mapped over the proposals: the five reads are awaited
\* together inside try/catch; any failure gives the fallback record
RuntimeEntry(proposal, reads, account, accountVotes) ==
  LET hasVotedRead == HasVotedRead(account, reads)
  IN  IF AllReadsOk([reads EXCEPT !.hasVoted = hasVotedRead])
        THEN [rejected |-> FALSE, key |-> proposal.proposalId,
              info |-> Enriched(proposal, reads, hasVotedRead.value, accountVotes)]
        ELSE [rejected |-> FALSE, key |-> proposal.proposalId,
              info |-> Fallback(proposal)]

\* Object.fromEntries: one property per key, the last entry of a key wins
FromEntries(entries) ==
  [k \in {entries[i].key : i \in DOMAIN entries} |->
     entries[CHOOSE i \in DOMAIN entries :
                /\ entries[i].key = k
                /\ \A j \in DOMAIN entries : entries[j].key = k => j <= i].info]

\* loadProposalRuntimeData against one ledger and head; reads[id] holds the
\* outcomes of the five reads of proposal id
LoadProposalRuntimeDataOf(ledger, latestBlock, proposals, account, fromBlock, reads, rpc) ==
  LET voteScan ==
        IF account # "null"
          THEN GetAccountVoteEvents(ledger, latestBlock, account, fromBlock, rpc)
          ELSE [status |-> "ok", out |-> <<>>]
      accountVotes == voteScan.out
      entries ==
        [i \in DOMAIN proposals |->
           RuntimeEntry(proposals[i], reads[proposals[i].proposalId],
                        account, accountVotes)]
  IN  IF voteScan.status = "rejected" \/ \E i \in DOMAIN entries : entries[i].rejected
        THEN [status |-> "rejected", blockNumber |-> latestBlock,
              blockTimestamp |-> BlockTimestamp(latestBlock),
              byProposalId |-> <<>>]
        ELSE [status |-> "ok", blockNumber |-> latestBlock,
              blockTimestamp |-> BlockTimestamp(latestBlock),
              byProposalId |-> FromEntries(entries)]

\* --------------------------------------------------- ProposalActionButtons
\* props.runtime and props.chainHead when the page has none to pass
NoRuntimeProp ==
  [present |-> FALSE, state |-> "", snapshotBlock |-> 0, deadlineBlock |-> 0,
   etaSeconds |-> 0, hasVoted |-> FALSE]

NoChainHead == [present |-> FALSE, blockNumber |-> 0, blockTimestamp |-> 0]

\* runtime?.state ?? props.proposal.state
EffectiveState(props) ==
  IF props.runtime.present THEN props.runtime.state ELSE props.proposal.state

\* props.chainHead?.blockNumber ?? 0n, props.chainHead?.blockTimestamp ?? 0n
CurrentBlock(props) ==
  IF props.chainHead.present THEN props.chainHead.blockNumber ELSE 0

CurrentTimestamp(props) ==
  IF props.chainHead.present THEN props.chainHead.blockTimestamp ELSE 0

VoteButton(props) ==
  LET state == EffectiveState(props)
  IN  IF props.pendingAction = "vote"
        THEN [label |-> "Voting...", disabled |-> TRUE]
      ELSE IF props.runtime.present /\ props.runtime.hasVoted
        THEN [label |-> "Voted", disabled |-> TRUE]
      ELSE IF state = "Pending"
        THEN LET remaining ==
                   IF props.runtime.present /\ props.runtime.snapshotBlock > CurrentBlock(props)
                     THEN props.runtime.snapshotBlock - CurrentBlock(props) ELSE 0
             IN  [label |-> IF remaining > 0 THEN "Vote in blocks" ELSE "Vote pending",
                  disabled |-> TRUE]
      ELSE IF state = "Active"
        THEN [label |-> "Vote", disabled |-> ~props.canAct]
      ELSE [label |-> "Vote closed", disabled |-> TRUE]

QueueButton(props) ==
  LET state == EffectiveState(props)
  IN  IF props.pendingAction = "queue"
        THEN [label |-> "Queueing...", disabled |-> TRUE]
      ELSE IF state = "Succeeded"
        THEN [label |-> "Queue", disabled |-> ~props.canAct]
      ELSE IF state = "Pending" \/ state = "Active"
        THEN LET remaining ==
                   IF props.runtime.present /\ props.runtime.deadlineBlock >= CurrentBlock(props)
                     THEN props.runtime.deadlineBlock - CurrentBlock(props) + 1 ELSE 0
             IN  [label |-> IF remaining > 0 THEN "Queue in blocks" ELSE "Queue pending",
                  disabled |-> TRUE]
      ELSE IF state = "Queued" \/ state = "Executed"
        THEN [label |-> "Queued", disabled |-> TRUE]
      ELSE [label |-> "Queue unavailable", disabled |-> TRUE]

ExecuteButton(props) ==
  LET state == EffectiveState(props)
  IN  IF props.pendingAction = "execute"
        THEN [label |-> "Executing...", disabled |-> TRUE]
      ELSE IF state = "Queued"
        THEN LET remaining ==
                   IF props.runtime.present /\ props.runtime.etaSeconds > CurrentTimestamp(props)
                     THEN props.runtime.etaSeconds - CurrentTimestamp(props) ELSE 0
             IN  IF remaining > 0
                   THEN [label |-> "Execute in seconds", disabled |-> TRUE]
                   ELSE [label |-> "Execute", disabled |-> ~props.canAct]
      ELSE IF state = "Executed"
        THEN [label |-> "Executed", disabled |-> TRUE]
      ELSE IF state = "Succeeded"
        THEN [label |-> "Execute after queue", disabled |-> TRUE]
      ELSE [label |-> "Execute unavailable", disabled |-> TRUE]

\* the three governance buttons as rendered: label and disabled attribute
ProposalActionButtons(props) ==
  LET governanceActionPending == props.pendingAction # "null"
  IN  [vote    |-> VoteButton(props),
       queue   |-> [QueueButton(props) EXCEPT
                      !.disabled = @ \/ governanceActionPending],
       execute |-> [ExecuteButton(props) EXCEPT
                      !.disabled = @ \/ governanceActionPending]]

\* ------------------------------------------------ extractProposalBundleRef
\* An address is its lower-case form and whether it is written in mixed
\* (checksum) case; toLowerCase drops the casing.
ToLowerCase(address) == [address EXCEPT !.mixed = FALSE]

NoAddress == [lower |-> "", mixed |-> FALSE]

SameAddressExact(a, b) ==
  IF a = NoAddress \/ b = NoAddress THEN FALSE ELSE a = b

\* sameAddress
SameAddress(a, b) ==
  IF a = NoAddress \/ b = NoAddress THEN FALSE
  ELSE ToLowerCase(a) = ToLowerCase(b)

\* decodeCidHex on the bytes argument: text with the trailing zero bytes cut
DecodeCidHex(value) == StripTrailingZeros(value)

\* the absent reference, and a reference
NoRef == [present |-> FALSE, action |-> "", rootCid |-> <<>>, dappId |-> Undefined]

Ref(action, rootCid, dappId) ==
  [present |-> TRUE, action |-> action, rootCid |-> rootCid, dappId |-> dappId]

ExtractAtNoCatch(calldata, target, expectedRegistry) ==
  IF expectedRegistry # NoAddress /\ ~SameAddress(target, expectedRegistry)
    THEN [outcome |-> "continue", decoded |-> FALSE, ref |-> NoRef]
  ELSE IF calldata.fn = "throws"
    THEN [outcome |-> "throw", decoded |-> TRUE, ref |-> NoRef]
  ELSE IF calldata.fn \in {"publishDapp", "upgradeDapp"}
          /\ calldata.rootCid # UndefinedText
          /\ DecodeCidHex(calldata.rootCid) # <<>>
    THEN [outcome |-> "return", decoded |-> TRUE,
          ref |-> Ref(calldata.fn, DecodeCidHex(calldata.rootCid),
                      IF calldata.fn = "upgradeDapp" THEN calldata.dappId
                                                     ELSE Undefined)]
  ELSE [outcome |-> "continue", decoded |-> TRUE, ref |-> NoRef]

\* one iteration of the loop: the target check, then decodeFunctionData and
\* the two branches inside try/catch
ExtractAt(calldata, target, expectedRegistry) ==
  IF expectedRegistry # NoAddress /\ ~SameAddress(target, expectedRegistry)
    THEN [outcome |-> "continue", decoded |-> FALSE, ref |-> NoRef]
  ELSE IF calldata.fn = "throws"
    THEN [outcome |-> "continue", decoded |-> TRUE, ref |-> NoRef]
  ELSE IF calldata.fn = "publishDapp"
    THEN IF calldata.rootCid = UndefinedText
           THEN [outcome |-> "continue", decoded |-> TRUE, ref |-> NoRef]
         ELSE IF DecodeCidHex(calldata.rootCid) = <<>>
           THEN [outcome |-> "continue", decoded |-> TRUE, ref |-> NoRef]
         ELSE [outcome |-> "return", decoded |-> TRUE,
               ref |-> Ref("publishDapp", DecodeCidHex(calldata.rootCid), Undefined)]
  ELSE IF calldata.fn = "upgradeDapp"
    THEN IF calldata.rootCid = UndefinedText
           THEN [outcome |-> "continue", decoded |-> TRUE, ref |-> NoRef]
         ELSE IF DecodeCidHex(calldata.rootCid) = <<>>
           THEN [outcome |-> "continue", decoded |-> TRUE, ref |-> NoRef]
         ELSE [outcome |-> "return", decoded |-> TRUE,
               ref |-> Ref("upgradeDapp", DecodeCidHex(calldata.rootCid),
                           calldata.dappId)]
  ELSE [outcome |-> "continue", decoded |-> TRUE, ref |-> NoRef]

\* the loop from index i on (1-based); decodedAt collects the indexes that
\* were handed to decodeFunctionData
RECURSIVE ExtractLoop(_, _, _, _)
ExtractLoop(proposal, expectedRegistry, i, decodedAt) ==
  IF i > Len(proposal.calldatas)
    THEN [status |-> "ok", ref |-> NoRef, decodedAt |-> decodedAt]
    ELSE LET target == IF i \in DOMAIN proposal.targets
                         THEN proposal.targets[i] ELSE NoAddress
             step   == ExtractAt(proposal.calldatas[i], target, expectedRegistry)
             seen   == IF step.decoded THEN decodedAt \cup {i} ELSE decodedAt
         IN  IF step.outcome = "return"
               THEN [status |-> "ok", ref |-> step.ref, decodedAt |-> seen]
             ELSE IF step.outcome = "throw"
               THEN [status |-> "threw", ref |-> NoRef, decodedAt |-> seen]
             ELSE ExtractLoop(proposal, expectedRegistry, i + 1, seen)

ExtractProposalBundleRef(proposal, expectedRegistry) ==
  ExtractLoop(proposal, expectedRegistry, 1, {})

\* ======================================================================
\* State machines
\* ======================================================================
NoFetch ==
  [called |-> FALSE, fromBlock |-> 0, topics |-> <<>>, latestBlock |-> 0,
   rpc |-> NoFailure, status |-> "none", logs |-> <<>>, windows |-> <<>>]

NoRelisting == [called |-> FALSE, order |-> <<>>, status |-> "none", rows |-> <<>>]

NoListing ==
  [called |-> FALSE, fromBlock |-> 0, latestBlock |-> 0, stateReads |-> <<>>,
   rpc |-> NoFailure, status |-> "none", rows |-> <<>>, again |-> NoRelisting]

NoDapps ==
  [called |-> FALSE, fromBlock |-> 0, latestBlock |-> 0, heads |-> <<>>,
   rpc |-> NoFailure, status |-> "none", rows |-> <<>>]

NoRuntime ==
  [called |-> FALSE, account |-> "null", fromBlock |-> 0, proposals |-> <<>>,
   reads |-> <<>>, rpc |-> NoFailure, status |-> "none", blockNumber |-> 0,
   blockTimestamp |-> 0, byProposalId |-> <<>>]

NoUi ==
  [rendered |-> FALSE,
   props |-> [proposal |-> [state |-> ""], runtime |-> NoRuntimeProp,
              chainHead |-> NoChainHead, pendingAction |-> "null",
              canAct |-> FALSE],
   buttons |-> [vote |-> [label |-> "", disabled |-> TRUE],
                queue |-> [label |-> "", disabled |-> TRUE],
                execute |-> [label |-> "", disabled |-> TRUE]]]

NoBundleRef ==
  [called |-> FALSE, proposal |-> [targets |-> <<>>, calldatas |-> <<>>],
   expectedRegistry |-> NoAddress, status |-> "none", ref |-> NoRef,
   decodedAt |-> {}]

InitChain ==
  /\ chainHead = 0
  /\ chainLogs = <<>>

\* ---- the App component
\* the chain the application supports (DEFAULT_CHAIN_ID) and one it does not
SupportedChainId == 1

UnsupportedChainId == 9

\* the connected account as the wallet reports it, in lower or checksum case
Alice == [lower |-> "alice", mixed |-> FALSE]

AliceChecksum == [lower |-> "alice", mixed |-> TRUE]

\* publicClient, walletClient, account and chainId of one render; a chainId
\* of null is Undefined
NotConnected ==
  [publicClient |-> FALSE, walletClient |-> FALSE, account |-> NoAddress,
   chainId |-> Undefined]

Connected(account, chainId) ==
  [publicClient |-> TRUE, walletClient |-> TRUE, account |-> account,
   chainId |-> chainId]

\* lastAutoRefreshKeyRef.current of a component that never refreshed
NoKey == <<"", Undefined>>

\* the latest step was not the call of a handler
NoHandlerCall ==
  [handler |-> "none", clients |-> NotConnected, reads |-> 0, writes |-> 0,
   reported |-> ""]

\* useState initial values and useRef(null)
NoApp ==
  [clients |-> NotConnected, lastAutoRefreshKey |-> NoKey,
   proposals |-> 0, dapps |-> 0, status |-> "",
   refreshes |-> <<>>, submissions |-> <<>>, completions |-> <<>>,
   last |-> NoHandlerCall]

Init ==
  /\ InitChain
  /\ fetched = NoFetch
  /\ listed = NoListing
  /\ dappRows = NoDapps
  /\ runtime = NoRuntime
  /\ ui = NoUi
  /\ bundleRef = NoBundleRef
  /\ app = NoApp

\* ---------------------------------------------------------- the retriever
\* logs of the governor, as the retriever sees them: topics only
RetrieverPayloads ==
  {[topics |-> <<"ProposalCreated">>, data |-> [decodes |-> "ok"],
    positioned |-> TRUE]}
  \cup
  {[topics |-> <<"VoteCast", v>>, data |-> [decodes |-> "ok"],
    positioned |-> TRUE] : v \in Voters}

\* topic filters the callers pass: [topic0] or [topic0, voterTopic]
RetrieverFilters ==
  {<<"ProposalCreated">>, <<"VoteCast">>} \cup {<<"VoteCast", v>> : v \in Voters}

MineGovernorLogs ==
  /\ chainHead < MaxHead
  /\ \E payloads \in SeqsUpTo(RetrieverPayloads, Room(chainLogs, MaxLogs)) :
        MineBlock(payloads)
  /\ UNCHANGED <<fetched, listed, dappRows, runtime, ui, bundleRef, app>>

\* one call of getRawLogsChunkedByTopic
FetchLogs ==
  /\ ~fetched.called
  /\ \E fromBlock \in 0..(MaxHead + 1), topics \in RetrieverFilters :
       \E rpc \in {NoFailure} \cup RpcFailures({topics[1]}, fromBlock, chainHead) :
        LET got == GetRawLogsChunkedByTopic(chainLogs, chainHead, fromBlock,
                                            topics, rpc)
        IN  fetched' = [called |-> TRUE, fromBlock |-> fromBlock,
                        topics |-> topics, latestBlock |-> chainHead,
                        rpc |-> rpc, status |-> got.status,
                        logs |-> got.logs, windows |-> got.windows]
  /\ UNCHANGED <<chainHead, chainLogs, listed, dappRows, runtime, ui, bundleRef, app>>

NextRetriever == MineGovernorLogs \/ FetchLogs

SpecRetriever == Init /\ [][NextRetriever]_vars

\* ---------------------------------------------------------- listProposals
\* no two logs of one block create the same proposal
DistinctIds(payloads) ==
  \A i, j \in DOMAIN payloads :
     (i # j /\ payloads[i].data.decodes = "ok" /\ payloads[j].data.decodes = "ok")
        => payloads[i].data.proposalId # payloads[j].data.proposalId

\* the chain appends a block in which the governor created proposals
MineProposals ==
  /\ chainHead < MaxHead
  /\ \E payloads \in SeqsUpTo(ProposalCreatedPayloads(ProposalIds \ CreatedIds(chainLogs),
                                                       chainHead + 1),
                              Room(chainLogs, MaxLogs)) :
        /\ payloads # <<>>
        /\ DistinctIds(payloads)
        /\ MineBlock(payloads)
  /\ UNCHANGED <<fetched, listed, dappRows, runtime, ui, bundleRef, app>>

\* one call of listProposals; the state reads answer or fail per proposal.
\* When the scan fails no state read is issued.
ListProposals ==
  /\ ~listed.called
  /\ \E fromBlock \in ListFromBlocks :
       \E rpc \in {NoFailure} \cup RpcFailures({"ProposalCreated"}, fromBlock, chainHead) :
       \E stateReads \in IF rpc = NoFailure
                            THEN [CreatedIds(chainLogs) -> StateReadResults]
                            ELSE {[p \in CreatedIds(chainLogs) |-> ReadFailed]} :
        LET out == ListProposalsOf(chainLogs, chainHead, fromBlock, stateReads, rpc)
        IN  listed' = [called |-> TRUE, fromBlock |-> fromBlock,
                       latestBlock |-> chainHead, stateReads |-> stateReads,
                       rpc |-> rpc, status |-> out.status, rows |-> out.rows,
                       again |-> NoRelisting]
  /\ UNCHANGED <<chainHead, chainLogs, fetched, dappRows, runtime, ui, bundleRef, app>>

NextProposals == MineProposals \/ ListProposals

SpecProposals == Init /\ [][NextProposals]_vars

\* one call of listProposals in which the node answers every range query and
\* the governor answers a state read with Active or not at all
ListProposalsReading ==
  /\ ~listed.called
  /\ \E fromBlock \in ListFromBlocks :
       \E stateReads \in [CreatedIds(chainLogs) -> {ReadOk(1), ReadFailed}] :
        LET out == ListProposalsOf(chainLogs, chainHead, fromBlock, stateReads,
                                   NoFailure)
        IN  listed' = [called |-> TRUE, fromBlock |-> fromBlock,
                       latestBlock |-> chainHead, stateReads |-> stateReads,
                       rpc |-> NoFailure, status |-> out.status,
                       rows |-> out.rows, again |-> NoRelisting]
  /\ UNCHANGED <<chainHead, chainLogs, fetched, dappRows, runtime, ui, bundleRef, app>>

NextProposalReads == MineProposals \/ ListProposalsReading

SpecProposalReads == Init /\ [][NextProposalReads]_vars

\* a second call of listProposals against the chain state of the first: the
\* same logs and the same answers of the governor, the callbacks completing
\* in any order
ListProposalsAgain ==
  /\ listed.called
  /\ listed.rpc = NoFailure
  /\ ~listed.again.called
  /\ chainHead = listed.latestBlock
  /\ \E order \in CompletionOrders(ScannedCount(chainLogs, chainHead,
                                                 listed.fromBlock, NoFailure)) :
        LET out == ListProposalsCompleting(chainLogs, chainHead, listed.fromBlock,
                                           listed.stateReads, NoFailure, order)
        IN  listed' = [listed EXCEPT
                         !.again = [called |-> TRUE, order |-> order,
                                    status |-> out.status, rows |-> out.rows]]
  /\ UNCHANGED <<chainHead, chainLogs, fetched, dappRows, runtime, ui, bundleRef, app>>

\* the chain a listing is repeated on appends a block of created proposals
MineRelisted ==
  /\ chainHead < MaxHead
  /\ \E payloads \in SeqsUpTo(ProposalCreatedPayloads(ProposalIds \ CreatedIds(chainLogs),
                                                       chainHead + 1),
                              Room(chainLogs, MaxRelistLogs)) :
        /\ payloads # <<>>
        /\ DistinctIds(payloads)
        /\ MineBlock(payloads)
  /\ UNCHANGED <<fetched, listed, dappRows, runtime, ui, bundleRef, app>>

NextRelist == MineRelisted \/ ListProposals \/ ListProposalsAgain

SpecRelist == Init /\ [][NextRelist]_vars

\* -------------------------------------------------------------- listDapps
\* the chain appends a block holding registry events; the model follows the
\* chain up to the listing, which reads nothing above the head it saw
MineRegistry ==
  /\ ~dappRows.called
  /\ chainHead < MaxHead
  /\ \E events \in SeqsUpTo(RegistryEvents, Room(chainLogs, MaxRegistryLogs)) :
        /\ events # <<>>
        /\ MineBlock([i \in DOMAIN events |->
                        RegistryPayload(events[i], chainHead + 1, i - 1)])
  /\ UNCHANGED <<fetched, listed, dappRows, runtime, ui, bundleRef, app>>

\* one call of listDapps
ListDapps ==
  /\ ~dappRows.called
  /\ \E fromBlock \in ListFromBlocks :
       \E rpc \in {NoFailure}
                   \cup RpcFailures(Range(RegistryStreams), fromBlock, chainHead) :
        LET out == ListDappsOf(chainLogs, chainHead, fromBlock, RegistryStreams, rpc)
        IN  dappRows' = [called |-> TRUE, fromBlock |-> fromBlock,
                         latestBlock |-> chainHead,
                         heads |-> [i \in DOMAIN RegistryStreams |-> chainHead],
                         rpc |-> rpc,
                         status |-> out.status, rows |-> out.rows]
  /\ UNCHANGED <<chainHead, chainLogs, fetched, listed, runtime, ui, bundleRef, app>>

NextDapps == MineRegistry \/ ListDapps

SpecDapps == Init /\ [][NextDapps]_vars

\* one call of listDapps in which the node answers every range query
ListDappsAnswered ==
  /\ ~dappRows.called
  /\ \E fromBlock \in ListFromBlocks :
        LET out == ListDappsOf(chainLogs, chainHead, fromBlock,
                               RegistryStreams, NoFailure)
        IN  dappRows' = [called |-> TRUE, fromBlock |-> fromBlock,
                         latestBlock |-> chainHead,
                         heads |-> [i \in DOMAIN RegistryStreams |-> chainHead],
                         rpc |-> NoFailure,
                         status |-> out.status, rows |-> out.rows]
  /\ UNCHANGED <<chainHead, chainLogs, fetched, listed, runtime, ui, bundleRef, app>>

NextDappsAnswered == MineRegistry \/ ListDappsAnswered

SpecDappsAnswered == Init /\ [][NextDappsAnswered]_vars

\* heads a scan can read during a call in which the latest block was mined:
\* the head before that block, or the head after it
HeadsDuringCall == {h \in {chainHead - 1, chainHead} : h >= 0}

\* one call of listDapps from the deploy block of the registry, during which
\* the chain may append its latest block: each of the six scans reads the
\* head for itself
ListDappsWhileMining ==
  /\ ~dappRows.called
  /\ \E heads \in [DOMAIN RegistryStreams -> HeadsDuringCall] :
        LET out == ListDappsAtHeads(chainLogs, heads, 0, RegistryStreams)
        IN  dappRows' = [called |-> TRUE, fromBlock |-> 0,
                         latestBlock |-> chainHead, heads |-> heads,
                         rpc |-> NoFailure,
                         status |-> out.status, rows |-> out.rows]
  /\ UNCHANGED <<chainHead, chainLogs, fetched, listed, runtime, ui, bundleRef, app>>

\* the registry events of one version of one dapp
VersionEvents ==
  {e \in RegistryEvents : e.decodes = "ok" /\ e.target = <<1, 1>>}

\* the chain appends a block holding events of that version
MineVersionEvents ==
  /\ ~dappRows.called
  /\ chainHead < MaxHead
  /\ \E events \in SeqsUpTo(VersionEvents, Room(chainLogs, MaxRegistryLogs)) :
        /\ events # <<>>
        /\ MineBlock([i \in DOMAIN events |->
                        RegistryPayload(events[i], chainHead + 1, i - 1)])
  /\ UNCHANGED <<fetched, listed, dappRows, runtime, ui, bundleRef, app>>

NextDappsMining == MineVersionEvents \/ ListDappsWhileMining

SpecDappsMining == Init /\ [][NextDappsMining]_vars

\* ------------------------------------------------ loadProposalRuntimeData
\* accounts the loader is called with: a connected voter, or none
RuntimeAccounts == {"alice", "null"}

\* the proposal as listed earlier (ProposalInfo), its fields told apart from
\* what the authoritative reads answer
RuntimeProposal(proposalId) ==
  [proposalId |-> proposalId, voteStart |-> 10 + proposalId,
   voteEnd |-> 20 + proposalId, state |-> "Succeeded"]

RuntimeProposals == <<RuntimeProposal(1), RuntimeProposal(2)>>

\* the five reads of a proposal all answering
ReadsAllOk(proposalId, voted) ==
  [state    |-> ReadOk(5),
   snapshot |-> ReadOk(30 + proposalId),
   deadline |-> ReadOk(40 + proposalId),
   eta      |-> ReadOk(50 + proposalId),
   hasVoted |-> ReadOk(voted)]

\* the reads with the one named rejected (a rejected read has no answer)
FailRead(reads, r) ==
  [reads EXCEPT ![r] = [ok |-> FALSE,
                        value |-> IF r = "hasVoted" THEN FALSE ELSE 0]]

\* what the reads of a proposal can do: all answer, or one of them fails.
\* Without an account hasVoted is not read.
ReadOutcomes(account, proposalId) ==
  IF account = "null"
    THEN {ReadsAllOk(proposalId, FALSE)}
         \cup {FailRead(ReadsAllOk(proposalId, FALSE), r) :
                 r \in ReadNames \ {"hasVoted"}}
    ELSE {ReadsAllOk(proposalId, voted) : voted \in BOOLEAN}
         \cup {FailRead(ReadsAllOk(proposalId, TRUE), r) :
                 r \in ReadNames}

ReadOutcomesOf(account) ==
  {reads \in [RuntimeProposalIds ->
                UNION {ReadOutcomes(account, p) : p \in RuntimeProposalIds}] :
     \A p \in RuntimeProposalIds : reads[p] \in ReadOutcomes(account, p)}

\* the chain appends a block in which accounts cast votes
MineVotes ==
  /\ ~runtime.called
  /\ chainHead < MaxHead
  /\ \E events \in SeqsUpTo(VoteEvents, Room(chainLogs, MaxVoteLogs)) :
        /\ events # <<>>
        /\ MineBlock([i \in DOMAIN events |->
                        VotePayload(events[i], chainHead + 1, i - 1)])
  /\ UNCHANGED <<fetched, listed, dappRows, runtime, ui, bundleRef, app>>

\* one call of loadProposalRuntimeData. The vote scan runs only for an
\* account; when it fails no read of a proposal is issued.
LoadProposalRuntimeData ==
  /\ ~runtime.called
  /\ \E account \in RuntimeAccounts, fromBlock \in ListFromBlocks :
       \E rpc \in {NoFailure}
                   \cup IF account = "null" THEN {}
                        ELSE RpcFailures(Range(VoteStreams), fromBlock, chainHead) :
       \E reads \in IF rpc = NoFailure
                       THEN ReadOutcomesOf(account)
                       ELSE {[p \in RuntimeProposalIds |-> ReadsAllOk(p, FALSE)]} :
        LET out == LoadProposalRuntimeDataOf(chainLogs, chainHead, RuntimeProposals,
                                             account, fromBlock, reads, rpc)
        IN  runtime' = [called |-> TRUE, account |-> account,
                        fromBlock |-> fromBlock, proposals |-> RuntimeProposals,
                        reads |-> reads, rpc |-> rpc, status |-> out.status,
                        blockNumber |-> out.blockNumber,
                        blockTimestamp |-> out.blockTimestamp,
                        byProposalId |-> out.byProposalId]
  /\ UNCHANGED <<chainHead, chainLogs, fetched, listed, dappRows, ui, bundleRef, app>>

NextRuntime == MineVotes \/ LoadProposalRuntimeData

SpecRuntime == Init /\ [][NextRuntime]_vars

\* --------------------------------------------------- ProposalActionButtons
\* lifecycle states a proposal or its runtime record can show
ProposalStates == Range(STATE_NAMES)

\* execution etas of a runtime record: none, and two timelock deadlines
EtaSeconds == {0, 24, 60}

\* runtime records a page passes for a proposal, or none while the runtime
\* data has not been loaded
RuntimeProps ==
  {NoRuntimeProp}
  \cup {[present |-> TRUE, state |-> st, snapshotBlock |-> 2, deadlineBlock |-> 3,
         etaSeconds |-> eta, hasVoted |-> voted] :
          st \in ProposalStates, eta \in EtaSeconds, voted \in BOOLEAN}

\* the head loaded with the runtime data, or null
ChainHeads ==
  {NoChainHead}
  \cup {[present |-> TRUE, blockNumber |-> b, blockTimestamp |-> BlockTimestamp(b)] :
          b \in 1..MaxHead}

PendingActions == {"null", "vote", "queue", "execute"}

\* a page renders the buttons of one proposal
RenderButtons ==
  /\ ~ui.rendered
  /\ \E st \in ProposalStates, rt \in RuntimeProps, head \in ChainHeads,
        pending \in PendingActions, canAct \in BOOLEAN :
        LET props == [proposal |-> [state |-> st], runtime |-> rt,
                      chainHead |-> head, pendingAction |-> pending,
                      canAct |-> canAct]
        IN  ui' = [rendered |-> TRUE, props |-> props,
                   buttons |-> ProposalActionButtons(props)]
  /\ UNCHANGED <<chainHead, chainLogs, fetched, listed, dappRows, runtime, bundleRef, app>>

NextButtons == RenderButtons

SpecButtons == Init /\ [][NextButtons]_vars

\* ------------------------------------------------ extractProposalBundleRef
\* targets of a proposal's calls: the registry in either casing, another
\* contract
Targets ==
  {[lower |-> "registry", mixed |-> m] : m \in BOOLEAN}
  \cup {[lower |-> "token", mixed |-> FALSE]}

\* the registry address the caller expects, or none
ExpectedRegistries ==
  {NoAddress} \cup {[lower |-> "registry", mixed |-> m] : m \in BOOLEAN}

\* The call payload at index i: one decodeFunctionData rejects, one of
\* another registry function, or publishDapp / upgradeDapp whose bytes
\* argument is missing, empty, only zero bytes, or zero-padded text. The text
\* names the index, so that a reference shows which pair it was read from.
CalldatasAt(i) ==
  {[fn |-> "throws", rootCid |-> <<>>, dappId |-> Undefined],
   [fn |-> "pauseDapp", rootCid |-> <<>>, dappId |-> Undefined]}
  \cup {[fn |-> fn, rootCid |-> cid,
         dappId |-> IF fn = "upgradeDapp" THEN 5 ELSE Undefined] :
          fn \in {"publishDapp", "upgradeDapp"},
          cid \in {UndefinedText, <<>>, <<0, 0>>, <<10 + i, 0>>}}

\* proposals of n calls, targets and calldatas index-aligned
ProposalsOfCalls(n) ==
  {[targets |-> targets, calldatas |-> calldatas] :
     targets \in [1..n -> Targets],
     calldatas \in {c \in [1..n -> UNION {CalldatasAt(i) : i \in 1..n}] :
                      \A i \in 1..n : c[i] \in CalldatasAt(i)}}

\* one call of extractProposalBundleRef
ExtractBundleRef ==
  /\ ~bundleRef.called
  /\ \E n \in 0..MaxCalls, expectedRegistry \in ExpectedRegistries :
       \E proposal \in ProposalsOfCalls(n) :
        LET out == ExtractProposalBundleRef(proposal, expectedRegistry)
        IN  bundleRef' = [called |-> TRUE, proposal |-> proposal,
                          expectedRegistry |-> expectedRegistry,
                          status |-> out.status, ref |-> out.ref,
                          decodedAt |-> out.decodedAt]
  /\ UNCHANGED <<chainHead, chainLogs, fetched, listed, dappRows, runtime, ui, app>>

NextBundle == ExtractBundleRef

SpecBundle == Init /\ [][NextBundle]_vars

\* ------------------------------------------------- the scans of a refresh
\* Logs of a chain that every scan of the application reads from: the
\* creation of the next proposal, a registry publication and a vote of the
\* account.
ScannedPayloads(block, index) ==
  {p \in ProposalCreatedPayloads(
            {id \in ProposalIds : id = Cardinality(CreatedIds(chainLogs)) + 1},
            block) : p.data.decodes = "ok" /\ p.positioned}
  \cup {RegistryPayload([kind |-> "DappPublished", decodes |-> "ok",
                         target |-> <<1, 1>>], block, index),
        VotePayload([kind |-> "VoteCast", voter |-> "alice", decodes |-> "ok",
                     proposalId |-> 1], block, index)}

\* no scan has been started yet
NoCallYet ==
  ~fetched.called /\ ~listed.called /\ ~dappRows.called /\ ~runtime.called

\* the chain appends a block of such logs
MineScanned ==
  /\ NoCallYet
  /\ chainHead < MaxHead
  /\ \E n \in 1..Room(chainLogs, MaxLogs) :
       \E payloads \in [1..n -> UNION {ScannedPayloads(chainHead + 1, i - 1) : i \in 1..n}] :
        /\ \A i \in 1..n : payloads[i] \in ScannedPayloads(chainHead + 1, i - 1)
        /\ Cardinality({i \in 1..n : payloads[i].topics[1] = "ProposalCreated"}) <= 1
        /\ MineBlock(payloads)
  /\ UNCHANGED <<fetched, listed, dappRows, runtime, ui, bundleRef, app>>

\* one scan of the chain, by the retriever alone or inside one of its callers
NextScans ==
  \/ MineScanned
  \/ (NoCallYet /\ FetchLogs)
  \/ (NoCallYet /\ ListProposals)
  \/ (NoCallYet /\ ListDapps)
  \/ (NoCallYet /\ LoadProposalRuntimeData)

SpecScans == Init /\ [][NextScans]_vars

\* ---------------------------------------------------- the App's handlers
\* getNetwork(chainId): defined for the supported chain only
Network(chainId) == chainId = SupportedChainId

\* a check that does not look at the wallet client
WithClientsButWallet(clients) ==
  /\ clients.publicClient
  /\ clients.account # NoAddress
  /\ Network(clients.chainId)

\* withClients resolves (TRUE) or throws "Wallet/network not ready" (FALSE)
WithClients(clients) ==
  /\ clients.publicClient
  /\ clients.walletClient
  /\ clients.account # NoAddress
  /\ Network(clients.chainId)

NotReady == "Wallet/network not ready"

\* reportError: the message of the error becomes the status (and the toast)
ReportError(a, message) == [a EXCEPT !.status = message]

\* `${account.toLowerCase()}-${chainId}`
RefreshKey(clients) == <<ToLowerCase(clients.account).lower, clients.chainId>>

\* refreshGovernanceData up to its await of Promise.all: the precondition
\* error is reported, or both listings are issued with the clients of the
\* render the function belongs to
RefreshGovernanceData(a, origin, clients) ==
  IF ~WithClients(clients)
    THEN ReportError(a, NotReady)
    ELSE [a EXCEPT !.status = "Refreshing proposals and registry data",
                   !.refreshes =
                      Append(@, [origin    |-> origin,
                                 key       |-> RefreshKey(clients),
                                 proposals |-> "pending",
                                 dapps     |-> "pending",
                                 outcome   |-> "pending"])]

\* what is left of a refresh once both its listings have settled, and of a
\* submission once the wallet has answered: the promises are gone
Settled ==
  [origin |-> "", key |-> NoKey, proposals |-> "settled", dapps |-> "settled",
   outcome |-> "settled"]

SettledSubmission == [clients |-> NotConnected, stage |-> "settled"]

Forget(a, i) ==
  IF a.refreshes[i].proposals # "pending" /\ a.refreshes[i].dapps # "pending"
    THEN [a EXCEPT !.refreshes[i] = Settled]
    ELSE a

\* a refresh that shows its result only when no refresh started after it has
\* shown one
PublishIfStartedLast(a, i) ==
  IF i > a.proposals
    THEN [a EXCEPT !.proposals = i, !.dapps = i,
                   !.status = "Loaded proposals and dapps",
                   !.refreshes[i].outcome = "published",
                   !.completions = Append(@, i)]
    ELSE [a EXCEPT !.status = "Loaded proposals and dapps",
                   !.refreshes[i].outcome = "published",
                   !.completions = Append(@, i)]

\* setProposals(nextProposals); setDapps(nextDapps); setStatus(...): the
\* visible lists are the results of refresh i
Publish(a, i) ==
  [a EXCEPT !.proposals = i, !.dapps = i,
            !.status = "Loaded proposals and dapps",
            !.refreshes[i].outcome = "published",
            !.completions = Append(@, i)]

\* the catch of refreshGovernanceData after a listing rejected
FailRefresh(a, i) ==
  [ReportError(a, "eth_getLogs failed") EXCEPT
     !.refreshes[i].outcome = "failed"]

\* a refresh that shows each list as soon as its listing resolves
SettleListingEagerly(a, i, which, outcome) ==
  LET b == [a EXCEPT !.refreshes[i][which] = outcome]
      r == b.refreshes[i]
      c == IF outcome # "ok" THEN b
           ELSE IF which = "proposals" THEN [b EXCEPT !.proposals = i]
           ELSE [b EXCEPT !.dapps = i]
  IN  IF r.outcome # "pending" THEN Forget(b, i)
      ELSE IF r.proposals = "ok" /\ r.dapps = "ok" THEN Forget(Publish(c, i), i)
      ELSE IF outcome = "rejected" THEN Forget(FailRefresh(c, i), i)
      ELSE c

\* listProposals or listDapps of refresh i settles. Promise.all resolves
\* when both have resolved and rejects at the first rejection; the code
\* behind the await runs then, once. The other listing of a rejected
\* Promise.all goes on scanning and its result is dropped.
SettleListing(a, i, which, outcome) ==
  LET b == [a EXCEPT !.refreshes[i][which] = outcome]
      r == b.refreshes[i]
  IN  IF r.outcome # "pending" THEN Forget(b, i)
      ELSE IF r.proposals = "ok" /\ r.dapps = "ok" THEN Forget(Publish(b, i), i)
      ELSE IF outcome = "rejected" THEN Forget(FailRefresh(b, i), i)
      ELSE b

\* onProposePublish, onProposeUpgrade, onCastVote, onQueue, onExecute
SubmitHandlers ==
  {"onProposePublish", "onProposeUpgrade", "onCastVote", "onQueue", "onExecute"}

\* a submitting handler up to its await of the wallet write
Submit(a, handler, clients) ==
  IF ~WithClients(clients)
    THEN ReportError(a, NotReady)
    ELSE [a EXCEPT !.status = "Submitting",
                   !.submissions = Append(@, [clients |-> clients,
                                              stage   |-> "signing"])]

\* the wallet write of submission s settles: setTxHash, setStatus and the
\* awaited refreshGovernanceData of the same render, or reportError
SettleSubmission(a, s, outcome) ==
  IF outcome = "rejected"
    THEN [ReportError(a, "User rejected the request") EXCEPT
            !.submissions[s] = SettledSubmission]
    ELSE RefreshGovernanceData(
           [a EXCEPT !.status = "Submitted",
                     !.submissions[s] = SettledSubmission],
           "submit", a.submissions[s].clients)

\* what a handler call did: the reads it issued (two listings per refresh it
\* started), the wallet writes it issued and the status it left
HandlerCall(handler, clients, a, b) ==
  [handler  |-> handler,
   clients  |-> clients,
   reads    |-> 2 * (Len(b.refreshes) - Len(a.refreshes)),
   writes   |-> Len(b.submissions) - Len(a.submissions),
   reported |-> b.status]

\* wallet and network states syncInjectedWalletState can leave behind
ClientStates ==
  {NotConnected,
   Connected(Alice, SupportedChainId),
   Connected(AliceChecksum, SupportedChainId),
   Connected(Alice, UnsupportedChainId),
   Connected(NoAddress, SupportedChainId),
   [Connected(Alice, SupportedChainId) EXCEPT !.walletClient = FALSE],
   [Connected(Alice, SupportedChainId) EXCEPT !.publicClient = FALSE]}

\* syncInjectedWalletState after accountsChanged, chainChanged or a connect
SyncInjectedWalletState ==
  /\ \E clients \in ClientStates \ {app.clients} :
        app' = [app EXCEPT !.clients = clients, !.last = NoHandlerCall]
  /\ UNCHANGED <<chainHead, chainLogs, fetched, listed, dappRows, runtime, ui, bundleRef>>

\* the auto-refresh effect of a render whose clients are ready
AutoRefreshEffect ==
  /\ WithClients(app.clients)
  /\ app.clients.chainId # Undefined
  /\ app.lastAutoRefreshKey # RefreshKey(app.clients)
  /\ Len(app.refreshes) < MaxRefreshes
  /\ LET a == [app EXCEPT !.lastAutoRefreshKey = RefreshKey(app.clients)]
         b == RefreshGovernanceData(a, "effect", app.clients)
     IN  app' = [b EXCEPT !.last = HandlerCall("refreshGovernanceData",
                                               app.clients, app, b)]
  /\ UNCHANGED <<chainHead, chainLogs, fetched, listed, dappRows, runtime, ui, bundleRef>>

\* a submitting handler is called
CallSubmit ==
  /\ Len(app.submissions) < MaxSubmissions
  /\ \E handler \in SubmitHandlers :
        LET b == Submit(app, handler, app.clients)
        IN  app' = [b EXCEPT !.last = HandlerCall(handler, app.clients, app, b)]
  /\ UNCHANGED <<chainHead, chainLogs, fetched, listed, dappRows, runtime, ui, bundleRef>>

\* the wallet answers a submission
WalletSettles ==
  /\ \E s \in DOMAIN app.submissions :
        /\ app.submissions[s].stage = "signing"
        /\ \E outcome \in {"ok", "rejected"} :
              /\ outcome = "ok" => Len(app.refreshes) < MaxRefreshes
              /\ app' = [SettleSubmission(app, s, outcome) EXCEPT
                          !.last = NoHandlerCall]
  /\ UNCHANGED <<chainHead, chainLogs, fetched, listed, dappRows, runtime, ui, bundleRef>>

\* a listing of a refresh in flight resolves or rejects
ListingSettles ==
  /\ \E i \in DOMAIN app.refreshes :
        \E which \in {"proposals", "dapps"} :
          /\ app.refreshes[i][which] = "pending"
          /\ \E outcome \in {"ok", "rejected"} :
                app' = [SettleListing(app, i, which, outcome) EXCEPT
                          !.last = NoHandlerCall]
  /\ UNCHANGED <<chainHead, chainLogs, fetched, listed, dappRows, runtime, ui, bundleRef>>

NextApp ==
  SyncInjectedWalletState \/ AutoRefreshEffect \/ CallSubmit
    \/ WalletSettles \/ ListingSettles

SpecApp == Init /\ [][NextApp]_vars

\* refreshGovernanceData called in a render whose clients are not ready;
\* with ready clients it is called by the effect and after a submission
CallRefreshGovernanceData ==
  /\ ~WithClients(app.clients)
  /\ LET b == RefreshGovernanceData(app, "call", app.clients)
     IN  app' = [b EXCEPT !.last = HandlerCall("refreshGovernanceData",
                                               app.clients, app, b)]
  /\ UNCHANGED <<chainHead, chainLogs, fetched, listed, dappRows, runtime, ui, bundleRef>>

NextHandlers == NextApp \/ CallRefreshGovernanceData

SpecHandlers == Init /\ [][NextHandlers]_vars

\* ======================================================================
\* Properties
\* ======================================================================

\* C1: the logs the chunked retriever returns for fromBlock <= head are
\* exactly the logs one query over fromBlock..head returns, in the same
\* order: nothing is lost or repeated where two windows meet.
C1_ChunkedEqualsSingleQuery ==
  (fetched.called /\ fetched.rpc = NoFailure
     /\ fetched.fromBlock <= fetched.latestBlock)
    => fetched.logs = EthGetLogs(chainLogs, fetched.topics,
                                 fetched.fromBlock, fetched.latestBlock)

\* a scan of several windows with logs on both sides of a window boundary
C1_Witness ==
  /\ fetched.called
  /\ Len(fetched.windows) >= 2
  /\ \E i \in 1..(Len(fetched.logs) - 1) :
        /\ fetched.logs[i].block = fetched.windows[1][2]
        /\ fetched.logs[i + 1].block = fetched.windows[2][1]
  /\ \E k \in DOMAIN chainLogs : ~MatchesTopics(chainLogs[k], fetched.topics)

\* the creation log of a listed proposal, and the position the listing read
\* from it
CreationLog(proposalId) ==
  chainLogs[CHOOSE k \in DOMAIN chainLogs :
               /\ chainLogs[k].topics[1] = "ProposalCreated"
               /\ chainLogs[k].data.decodes = "ok"
               /\ chainLogs[k].data.proposalId = proposalId]

CreatedBlockOf(row) == ParseHexToBigint(CreationLog(row.proposalId).blockNumber)

CreatedLogIndexOf(row) == ParseHexToBigint(CreationLog(row.proposalId).logIndex)

SameCreatedPair(a, b) ==
  /\ CreatedBlockOf(a) = CreatedBlockOf(b)
  /\ CreatedLogIndexOf(a) = CreatedLogIndexOf(b)

\* a sorts before b: greater creation pair, then greater voteStart, then
\* greater proposalId
SortsBefore(a, b) ==
  \/ PairGreater(CreatedBlockOf(a), CreatedLogIndexOf(a),
                 CreatedBlockOf(b), CreatedLogIndexOf(b))
  \/ /\ SameCreatedPair(a, b)
     /\ \/ a.voteStart > b.voteStart
        \/ (a.voteStart = b.voteStart /\ a.proposalId > b.proposalId)

\* C2: in the list listProposals returns, the proposal with the greater
\* (creation block, creation log index) comes first; equal pairs are ordered
\* by descending voteStart, then descending proposalId.
C2_ListingSortedDescending ==
  listed.called =>
    \A i, j \in DOMAIN listed.rows :
       i < j => SortsBefore(listed.rows[i], listed.rows[j])

\* three proposals listed: two with equal creation pair and voteStart (the
\* proposalId decides), one of a greater pair in the same block as another
C2_Witness ==
  /\ listed.called
  /\ Len(listed.rows) >= 3
  /\ \E i, j \in DOMAIN listed.rows :
        /\ i < j
        /\ SameCreatedPair(listed.rows[i], listed.rows[j])
        /\ listed.rows[i].voteStart = listed.rows[j].voteStart
  /\ \E i, j \in DOMAIN listed.rows :
        /\ i < j
        /\ ~SameCreatedPair(listed.rows[i], listed.rows[j])

\* creation logs the listing scanned
ScannedCreationLogs ==
  SelectSeq(chainLogs, LAMBDA l : /\ l.topics[1] = "ProposalCreated"
                                  /\ l.block >= listed.fromBlock
                                  /\ l.block <= listed.latestBlock)

\* the record a decoded creation log stands for
RecordOf(log) ==
  [proposalId |-> log.data.proposalId,
   voteStart  |-> log.data.voteStart,
   voteEnd    |-> log.data.voteEnd,
   state      |-> StateName(listed.stateReads[log.data.proposalId].value)]

\* C7: a creation log that does not decode (or decodes to wrongly typed
\* ids) is dropped alone: the listing succeeds and holds the record of every
\* decoded log whose state was read, and nothing else.
C7_UndecodableLogDroppedAlone ==
  (listed.called /\ listed.rpc = NoFailure) =>
    /\ listed.status = "ok"
    /\ Range(listed.rows) =
         {RecordOf(l) : l \in {x \in Range(ScannedCreationLogs) :
                                  /\ x.data.decodes = "ok"
                                  /\ listed.stateReads[x.data.proposalId].ok}}

\* a listing that scanned a log that does not decode, a wrongly typed one
\* and a good one
C7_Witness ==
  /\ listed.called
  /\ \E l \in Range(ScannedCreationLogs) : DecodeThrows(l)
  /\ \E l \in Range(ScannedCreationLogs) : DecodeBadType(l)
  /\ Len(listed.rows) >= 1

\* every registry log of the range the listing scanned, in chain order
ScannedRegistryLogs ==
  SelectSeq(chainLogs, LAMBDA l : /\ l.block >= dappRows.fromBlock
                                  /\ l.block <= dappRows.latestBlock)

\* C3: the rows of listDapps are the left fold of the events in chain
\* order, (blockNumber, logIndex) ascending, whatever stream each event came
\* from and in whatever order the streams are laid end to end.
C3_RowsAreChainOrderFold ==
  (dappRows.called /\ dappRows.status = "ok") =>
    /\ dappRows.rows = RowsOfDapps(FoldEntries(<<>>, ScannedRegistryLogs))
    /\ \A k \in 1..Len(RegistryStreams) :
          ListDappsOf(chainLogs, dappRows.latestBlock, dappRows.fromBlock,
                      SubSeq(RegistryStreams, k, Len(RegistryStreams))
                        \o SubSeq(RegistryStreams, 1, k - 1), NoFailure).rows
            = dappRows.rows

\* the streams laid end to end, before the sort
ScannedConcatenation ==
  ConcatStreams(chainLogs, dappRows.latestBlock, dappRows.fromBlock, RegistryStreams)

\* a listing whose streams, laid end to end, are out of chain order inside
\* one block, and where folding them unsorted would give other rows
C3_Witness ==
  /\ dappRows.called
  /\ dappRows.status = "ok"
  /\ \E i \in 1..(Len(ScannedConcatenation) - 1) :
        /\ ScannedConcatenation[i].block = ScannedConcatenation[i + 1].block
        /\ ScannedConcatenation[i].index > ScannedConcatenation[i + 1].index
  /\ RowsOfDapps(FoldEntries(<<>>, ScannedConcatenation)) # dappRows.rows

\* C6: a registry log that does not decode is dropped silently: listDapps
\* does not fail and its rows are the fold of the decodable events.
C6_UndecodableRegistryLogDropped ==
  (dappRows.called /\ dappRows.rpc = NoFailure) =>
    /\ dappRows.status = "ok"
    /\ dappRows.rows =
         RowsOfDapps(FoldEntries(<<>>,
            SelectSeq(ScannedRegistryLogs, LAMBDA l : ~DecodeThrows(l))))

\* the vote logs of the account that the loader's scan covers and decodes,
\* for one proposal
ScannedVotes(proposalId) ==
  {k \in DOMAIN chainLogs :
     /\ chainLogs[k].topics[1] \in Range(VoteStreams)
     /\ chainLogs[k].topics[2] = runtime.account
     /\ chainLogs[k].block >= runtime.fromBlock
     /\ chainLogs[k].block <= runtime.blockNumber
     /\ chainLogs[k].data.decodes = "ok"
     /\ chainLogs[k].data.proposalId = proposalId}

\* the scanned vote with the greatest (block, log index)
LatestVote(proposalId) ==
  CHOOSE k \in ScannedVotes(proposalId) :
    \A j \in ScannedVotes(proposalId) :
       j = k \/ PairGreater(chainLogs[k].block, chainLogs[k].index,
                            chainLogs[j].block, chainLogs[j].index)

\* all five reads of the proposal answered and hasVoted answered true
ReadVoted(proposalId) ==
  /\ runtime.called
  /\ runtime.rpc = NoFailure
  /\ runtime.account # "null"
  /\ AllReadsOk(runtime.reads[proposalId])
  /\ runtime.reads[proposalId].hasVoted.value = TRUE

\* C4: when the account's scanned logs hold vote events for a proposal and
\* the hasVoted read answered true, the record's voteDirection and
\* voteWeight are those of the event with the greatest (block, log index),
\* whatever shape it has and in whatever order the events were retrieved.
C4_LatestVoteWins ==
  \A p \in RuntimeProposalIds :
    (ReadVoted(p) /\ ScannedVotes(p) # {})
      => LET log == chainLogs[LatestVote(p)]
         IN  /\ runtime.byProposalId[p].voteDirection
                  = VoteDirectionFromSupport(log.data.support)
             /\ runtime.byProposalId[p].voteWeight = log.data.weight

\* the greatest vote is a plain cast retrieved before a later-shaped one of
\* a lower position, and both are scanned
C4_Witness ==
  \E p \in RuntimeProposalIds :
    /\ ReadVoted(p)
    /\ Cardinality(ScannedVotes(p)) >= 2
    /\ chainLogs[LatestVote(p)].topics[1] = "VoteCast"
    /\ \E j \in ScannedVotes(p) : chainLogs[j].topics[1] = "VoteCastWithParams"
    /\ runtime.byProposalId[p].voteDirection # "null"

\* C5: a failing read of one proposal degrades that proposal's record alone
\* to the fallback built from the proposal's own fields; the call answers
\* with one record per proposal and the other records are the enriched ones.
C5_FailedReadsDegradeOneRecord ==
  (runtime.called /\ runtime.rpc = NoFailure) =>
    /\ runtime.status = "ok"
    /\ DOMAIN runtime.byProposalId = RuntimeProposalIds
    /\ \A i \in DOMAIN runtime.proposals :
         LET proposal == runtime.proposals[i]
             p        == proposal.proposalId
             record   == runtime.byProposalId[p]
         IN  IF AllReadsOk([runtime.reads[p] EXCEPT
                              !.hasVoted = HasVotedRead(runtime.account, runtime.reads[p])])
               THEN /\ record.state = "Queued"
                    /\ record.snapshotBlock = runtime.reads[p].snapshot.value
                    /\ record.deadlineBlock = runtime.reads[p].deadline.value
                    /\ record.etaSeconds = runtime.reads[p].eta.value
               ELSE /\ record.state = proposal.state
                    /\ record.snapshotBlock = proposal.voteStart
                    /\ record.deadlineBlock = proposal.voteEnd
                    /\ record.etaSeconds = 0
                    /\ record.hasVoted = FALSE
                    /\ record.voteDirection = "null"
                    /\ record.voteWeight = Undefined

\* one proposal's read failed while the other's all answered
C5_Witness ==
  /\ runtime.called
  /\ \E p, q \in RuntimeProposalIds :
        /\ ~AllReadsOk(runtime.reads[p])
        /\ runtime.byProposalId[p].snapshotBlock = RuntimeProposal(p).voteStart
        /\ AllReadsOk(runtime.reads[q])
        /\ runtime.byProposalId[q].state = "Queued"
        /\ runtime.byProposalId[q].hasVoted

\* C9: when hasVoted answered true but the account's scanned logs hold no
\* vote event for the proposal, the record has hasVoted true, no direction
\* and no weight.
C9_VotedWithoutLocalEvent ==
  \A p \in RuntimeProposalIds :
    (ReadVoted(p) /\ ScannedVotes(p) = {})
      => /\ runtime.byProposalId[p].hasVoted = TRUE
         /\ runtime.byProposalId[p].voteDirection = "null"
         /\ runtime.byProposalId[p].voteWeight = Undefined

\* the vote was cast before fromBlock: on chain, but outside the scan
C9_Witness ==
  \E p \in RuntimeProposalIds :
    /\ ReadVoted(p)
    /\ ScannedVotes(p) = {}
    /\ \E k \in DOMAIN chainLogs :
          /\ chainLogs[k].topics[2] = runtime.account
          /\ chainLogs[k].data.decodes = "ok"
          /\ chainLogs[k].data.proposalId = p
          /\ chainLogs[k].block < runtime.fromBlock
    /\ runtime.byProposalId[p].hasVoted

\* C10: a record carries a direction or a weight only if its hasVoted is
\* true, and its hasVoted is true only if the contract answered so; records
\* of failed reads or of a call without account carry neither.
C10_VoteFieldsNeedHasVoted ==
  runtime.called =>
    \A p \in DOMAIN runtime.byProposalId :
      LET record == runtime.byProposalId[p]
      IN  /\ (record.voteDirection # "null" \/ record.voteWeight # Undefined)
               => record.hasVoted
          /\ record.hasVoted => ReadVoted(p)

\* a scanned vote of the account exists, yet hasVoted answered false
C10_Witness ==
  \E p \in RuntimeProposalIds :
    /\ runtime.called
    /\ runtime.account # "null"
    /\ ScannedVotes(p) # {}
    /\ AllReadsOk(runtime.reads[p])
    /\ runtime.reads[p].hasVoted.value = FALSE
    /\ runtime.byProposalId[p].voteDirection = "null"
    /\ runtime.byProposalId[p].voteWeight = Undefined
\* C8: the vote button is enabled only in effective state Active while the
\* account is not known to have voted; the queue button only in state
\* Succeeded; the execute button only in state Queued with a runtime record
\* whose eta is not after the head timestamp the component uses.
C8_ButtonsGated ==
  ui.rendered =>
    /\ ~ui.buttons.vote.disabled
         => /\ EffectiveState(ui.props) = "Active"
            /\ ~(ui.props.runtime.present /\ ui.props.runtime.hasVoted)
    /\ ~ui.buttons.queue.disabled => EffectiveState(ui.props) = "Succeeded"
    /\ ~ui.buttons.execute.disabled
         => /\ EffectiveState(ui.props) = "Queued"
            /\ ui.props.runtime.present
            /\ ui.props.runtime.etaSeconds <= CurrentTimestamp(ui.props)
\* the scanned events that address one dapp, in chain order
DappEvents(dappId) ==
  SelectSeq(ScannedRegistryLogs, LAMBDA l : l.data.dappId = dappId)

\* the rows listDapps returned for one dapp
RowsFor(dappId) ==
  {k \in DOMAIN dappRows.rows : dappRows.rows[k].dappId = dappId}

\* the listing answered and the dapp's events are exactly first, then second,
\* both for the same version
OnlyEvents(dappId, first, second) ==
  /\ dappRows.called
  /\ dappRows.status = "ok"
  /\ Len(DappEvents(dappId)) = 2
  /\ DappEvents(dappId)[1].topics[1] = first
  /\ DappEvents(dappId)[2].topics[1] = second
  /\ DappEvents(dappId)[1].data.versionId = DappEvents(dappId)[2].data.versionId

\* C11: a dapp whose only events are a publish of version v and then a
\* metadata event for v has one row: versionId v, the published rootCid
\* (text, padding cut), the metadata's name, version and description, and
\* status Published.
C11_PublishThenMetadataRow ==
  \A d \in {t[1] : t \in RegistryTargets} :
    OnlyEvents(d, "DappPublished", "DappMetadata") =>
      LET published == DappEvents(d)[1]
          metadata  == DappEvents(d)[2]
      IN  /\ Cardinality(RowsFor(d)) = 1
          /\ \A k \in RowsFor(d) :
               dappRows.rows[k] =
                 [dappId      |-> d,
                  versionId   |-> published.data.versionId,
                  name        |-> <<1, metadata.block, metadata.index>>,
                  version     |-> <<2, metadata.block, metadata.index>>,
                  description |-> <<3, metadata.block, metadata.index>>,
                  status      |-> "Published",
                  rootCid     |-> <<published.block, published.index + 1>>]

\* such a dapp was listed, next to nothing else or to another dapp
C11_Witness ==
  \E d \in {t[1] : t \in RegistryTargets} :
    /\ OnlyEvents(d, "DappPublished", "DappMetadata")
    /\ RowsFor(d) # {}
\* C12: a dapp with a publish of version v followed by a pause of v has
\* exactly one row: versionId v, the rootCid the publish set, status Paused.
C12_PublishThenPauseRow ==
  \A d \in {t[1] : t \in RegistryTargets} :
    OnlyEvents(d, "DappPublished", "DappPaused") =>
      LET published == DappEvents(d)[1]
      IN  /\ Cardinality(RowsFor(d)) = 1
          /\ \A k \in RowsFor(d) :
               /\ dappRows.rows[k].versionId = published.data.versionId
               /\ dappRows.rows[k].rootCid
                    = <<published.block, published.index + 1>>
               /\ dappRows.rows[k].status = "Paused"

\* such a dapp was listed, the pause in a later block than the publish
C12_Witness ==
  \E d \in {t[1] : t \in RegistryTargets} :
    /\ OnlyEvents(d, "DappPublished", "DappPaused")
    /\ DappEvents(d)[1].block < DappEvents(d)[2].block
    /\ \E k \in RowsFor(d) : dappRows.rows[k].status = "Paused"
\* the Map of dapps after the fold of the scanned events
FoldedDapps == FoldEntries(<<>>, ScannedRegistryLogs)

\* a field of a version record as a row shows it: "" when never set
Shown(value) == IF value = UndefinedText THEN <<>> ELSE value

\* C13: the rows hold exactly one row per dappId that occurs in a decoded
\* event, and each row shows versions[latestVersionId] of its dapp after the
\* fold; no other version of the dapp produces a row.
C13_OneRowPerDappOfLatestVersion ==
  (dappRows.called /\ dappRows.status = "ok") =>
    /\ {dappRows.rows[k].dappId : k \in DOMAIN dappRows.rows}
         = {ScannedRegistryLogs[i].data.dappId : i \in DOMAIN ScannedRegistryLogs}
    /\ \A j, k \in DOMAIN dappRows.rows :
         dappRows.rows[j].dappId = dappRows.rows[k].dappId => j = k
    /\ \A k \in DOMAIN dappRows.rows :
         \E n \in DOMAIN FoldedDapps :
           LET dapp == FoldedDapps[n]
               row  == dappRows.rows[k]
           IN  /\ dapp.dappId = row.dappId
               /\ row.versionId = dapp.latestVersionId
               /\ dapp.latestVersionId \in DOMAIN dapp.versions =>
                    LET latest == dapp.versions[dapp.latestVersionId]
                    IN  /\ row.rootCid = Shown(latest.rootCid)
                        /\ row.name = Shown(latest.name)
                        /\ row.version = Shown(latest.version)
                        /\ row.description = Shown(latest.description)
                        /\ row.status = IF latest.status = "undefined"
                                          THEN "Unknown" ELSE latest.status

\* a listed dapp holds two versions, the latest one not the highest, and its
\* one row shows the latest
C13_Witness ==
  /\ dappRows.called
  /\ dappRows.status = "ok"
  /\ \E n \in DOMAIN FoldedDapps :
       LET dapp == FoldedDapps[n]
       IN  /\ Cardinality(DOMAIN dapp.versions) = 2
           /\ \E v \in DOMAIN dapp.versions : v > dapp.latestVersionId
           /\ \E k \in RowsFor(dapp.dappId) :
                dappRows.rows[k].versionId = dapp.latestVersionId
\* the pair at index i targets the expected registry, whatever the casing,
\* or no registry is expected
TargetsExpected(i) ==
  \/ bundleRef.expectedRegistry = NoAddress
  \/ bundleRef.proposal.targets[i].lower = bundleRef.expectedRegistry.lower

\* the calldata at index i is a publishDapp or upgradeDapp call
DecodesToGoverned(i) ==
  bundleRef.proposal.calldatas[i].fn \in {"publishDapp", "upgradeDapp"}

\* its content identifier is not empty: it holds a byte other than zero
HasContentId(i) ==
  LET cid == bundleRef.proposal.calldatas[i].rootCid
  IN  cid # UndefinedText /\ \E j \in DOMAIN cid : cid[j] # 0

\* C14: extractProposalBundleRef never throws, and a proposal in which no
\* pair both targets the expected registry and decodes against publishDapp
\* or upgradeDapp yields the absent value.
C14_NoReferenceNeverThrows ==
  bundleRef.called =>
    /\ bundleRef.status = "ok"
    /\ (\A i \in DOMAIN bundleRef.proposal.calldatas :
           ~(TargetsExpected(i) /\ DecodesToGoverned(i)))
         => bundleRef.ref = NoRef

\* a payload that decodeFunctionData rejects was decoded, a governed call
\* was skipped for its target, and the answer is the absent value
C14_Witness ==
  /\ bundleRef.called
  /\ bundleRef.ref = NoRef
  /\ \E i \in bundleRef.decodedAt : bundleRef.proposal.calldatas[i].fn = "throws"
  /\ \E i \in DOMAIN bundleRef.proposal.calldatas :
        DecodesToGoverned(i) /\ HasContentId(i) /\ ~TargetsExpected(i)

\* the pairs a reference can be read from
Matching ==
  {i \in DOMAIN bundleRef.proposal.calldatas :
     TargetsExpected(i) /\ DecodesToGoverned(i) /\ HasContentId(i)}

\* C15: the reference is that of the lowest-index pair that targets the
\* expected registry (case-insensitively, when one is given) and decodes to
\* publishDapp or upgradeDapp with a non-empty content identifier; no later
\* pair is looked at, no pair with another target is decoded, and dappId is
\* present only for upgradeDapp.
C15_FirstMatchingPairWins ==
  bundleRef.called =>
    /\ IF Matching = {}
         THEN bundleRef.ref = NoRef
         ELSE LET first == CHOOSE i \in Matching : \A j \in Matching : i <= j
                  call  == bundleRef.proposal.calldatas[first]
              IN  /\ bundleRef.ref.present
                  /\ bundleRef.ref.action = call.fn
                  /\ bundleRef.ref.rootCid = <<10 + first>>
                  /\ bundleRef.ref.dappId =
                       (IF call.fn = "upgradeDapp" THEN call.dappId ELSE Undefined)
                  /\ \A i \in bundleRef.decodedAt : i <= first
    /\ \A i \in bundleRef.decodedAt : TargetsExpected(i)

\* two pairs match, the first one written in another casing than the
\* expected address
C15_Witness ==
  /\ bundleRef.called
  /\ Cardinality(Matching) >= 2
  /\ \E i \in Matching :
        /\ \A j \in Matching : i <= j
        /\ bundleRef.proposal.targets[i] # bundleRef.expectedRegistry
        /\ bundleRef.ref.rootCid = <<10 + i>>
  /\ bundleRef.expectedRegistry # NoAddress
\* C16: when fromBlock is greater than the head the retriever read, it
\* answers the empty sequence: it does not fail and issues no range query.
C16_FromBlockAboveHeadIsEmpty ==
  (fetched.called /\ fetched.fromBlock > fetched.latestBlock) =>
    /\ fetched.status = "ok"
    /\ fetched.logs = <<>>
    /\ fetched.windows = <<>>

\* a scan from above the head of a chain that holds logs the filter matches
C16_Witness ==
  /\ fetched.called
  /\ fetched.fromBlock > fetched.latestBlock
  /\ \E k \in DOMAIN chainLogs : MatchesTopics(chainLogs[k], fetched.topics)
  /\ fetched.logs = <<>>

\* C17: when the range query of a window fails, the retriever call fails as
\* a whole: it returns no log of the windows fetched before, it queries no
\* later window, and a listProposals, listDapps or loadProposalRuntimeData
\* whose scan met the failure fails too.
C17_WindowFailureFailsTheCall ==
  /\ (fetched.called /\ fetched.rpc # NoFailure) =>
       /\ fetched.status = "rejected"
       /\ fetched.logs = <<>>
       /\ Len(fetched.windows) = fetched.rpc.query
  /\ (listed.called /\ listed.rpc # NoFailure) =>
       (listed.status = "rejected" /\ listed.rows = <<>>)
  /\ (dappRows.called /\ dappRows.rpc # NoFailure) =>
       (dappRows.status = "rejected" /\ dappRows.rows = <<>>)
  /\ (runtime.called /\ runtime.rpc # NoFailure) =>
       (runtime.status = "rejected" /\ runtime.byProposalId = <<>>)

\* the second window's query failed after the first one had fetched logs
\* that the filter matches
C17_Witness ==
  /\ fetched.called
  /\ fetched.rpc.query = 2
  /\ fetched.status = "rejected"
  /\ EthGetLogs(chainLogs, fetched.topics,
                fetched.windows[1][1], fetched.windows[1][2]) # <<>>
  /\ fetched.logs = <<>>

\* C18: a second listProposals against the same chain state gives the same
\* rows in the same order as the first, whatever the order in which the
\* state reads of the second complete.
C18_ListingIsIdempotent ==
  listed.again.called =>
    /\ listed.again.status = listed.status
    /\ listed.again.rows = listed.rows

\* two or more proposals listed twice, the reads of the second call
\* completing in another order than they were issued
C18_Witness ==
  /\ listed.again.called
  /\ Len(listed.rows) >= 2
  /\ listed.again.order # InputOrder(Len(listed.again.order))
  /\ listed.again.rows = listed.rows

\* the state code the governor answered for the proposal of a listed row
CodeOf(row) == listed.stateReads[row.proposalId].value

\* C19: the state of a listed record is the name at position k of (Pending,
\* Active, Canceled, Defeated, Succeeded, Queued, Expired, Executed) for a
\* state code k in 0..7, so Active for code 1, and the decimal text of the
\* code for any other code; such a code does not fail the listing or drop
\* the record.
C19_StateIsNameOfCode ==
  LET names == <<"Pending", "Active", "Canceled", "Defeated",
                 "Succeeded", "Queued", "Expired", "Executed">>
  IN  (listed.called /\ listed.rpc = NoFailure) =>
        /\ listed.status = "ok"
        /\ \A i \in DOMAIN listed.rows :
             /\ CodeOf(listed.rows[i]) \in 0..7 =>
                  listed.rows[i].state = names[CodeOf(listed.rows[i]) + 1]
             /\ CodeOf(listed.rows[i]) = 1 => listed.rows[i].state = "Active"
             /\ CodeOf(listed.rows[i]) \notin 0..7 =>
                  listed.rows[i].state = ToString(CodeOf(listed.rows[i]))
        /\ \A k \in DOMAIN chainLogs :
             LET log == chainLogs[k]
             IN  (/\ log.block >= listed.fromBlock
                  /\ log.block <= listed.latestBlock
                  /\ log.data.decodes = "ok"
                  /\ listed.stateReads[log.data.proposalId].ok)
                   => \E i \in DOMAIN listed.rows :
                         listed.rows[i].proposalId = log.data.proposalId

\* a listing with an Active record, an Executed record and a record whose
\* state code 8 has no name
C19_Witness ==
  /\ listed.called
  /\ \E i \in DOMAIN listed.rows :
       CodeOf(listed.rows[i]) = 1 /\ listed.rows[i].state = "Active"
  /\ \E i \in DOMAIN listed.rows :
       CodeOf(listed.rows[i]) = 7 /\ listed.rows[i].state = "Executed"
  /\ \E i \in DOMAIN listed.rows :
       CodeOf(listed.rows[i]) = 8 /\ listed.rows[i].state = "8"

\* the Map before and after the fold handles the k-th scanned event
DappsBefore(k) == FoldEntries(<<>>, SubSeq(ScannedRegistryLogs, 1, k - 1))

DappsAfter(k) == FoldEntries(<<>>, SubSeq(ScannedRegistryLogs, 1, k))

\* the dapp record of dappId in a Map, the record getVersion starts from
\* when the Map has none
DappIn(dapps, dappId) ==
  IF DappIndex(dapps, dappId) = 0
    THEN NewDapp(dappId)
    ELSE dapps[DappIndex(dapps, dappId)]

DappIdsIn(dapps) == {dapps[n].dappId : n \in DOMAIN dapps}

\* positions of the metadata events among the scanned events
MetadataSteps ==
  {k \in DOMAIN ScannedRegistryLogs :
     ScannedRegistryLogs[k].topics[1] = "DappMetadata"}

\* C20: folding a metadata event for (dappId, versionId) sets the name, the
\* version label and the description of that version record, which is an
\* empty record when the Map had none; the record's status and rootCid, the
\* dapp's latestVersionId, every other version of the dapp and every other
\* dapp are as before the event.
C20_MetadataOnlyWritesDescriptiveFields ==
  (dappRows.called /\ dappRows.status = "ok") =>
    \A k \in MetadataSteps :
      LET args   == ScannedRegistryLogs[k].data
          before == DappIn(DappsBefore(k), args.dappId)
          after  == DappIn(DappsAfter(k), args.dappId)
          old    == IF args.versionId \in DOMAIN before.versions
                      THEN before.versions[args.versionId]
                      ELSE [versionId |-> args.versionId,
                            rootCid |-> UndefinedText, name |-> UndefinedText,
                            version |-> UndefinedText,
                            description |-> UndefinedText,
                            status |-> "undefined"]
      IN  /\ DOMAIN after.versions = DOMAIN before.versions \cup {args.versionId}
          /\ after.versions[args.versionId] =
               [old EXCEPT !.name = args.name, !.version = args.version,
                           !.description = args.description]
          /\ after.versions[args.versionId].status = old.status
          /\ after.versions[args.versionId].rootCid = old.rootCid
          /\ after.latestVersionId = before.latestVersionId
          /\ \A v \in DOMAIN before.versions :
               v # args.versionId => after.versions[v] = before.versions[v]
          /\ DappIdsIn(DappsAfter(k)) = DappIdsIn(DappsBefore(k)) \cup {args.dappId}
          /\ \A d \in DappIdsIn(DappsBefore(k)) :
               d # args.dappId => DappIn(DappsAfter(k), d) = DappIn(DappsBefore(k), d)

\* a metadata event was folded onto a published version that is not the
\* latest of its dapp
C20_Witness ==
  /\ dappRows.called
  /\ dappRows.status = "ok"
  /\ \E k \in MetadataSteps :
       LET args   == ScannedRegistryLogs[k].data
           before == DappIn(DappsBefore(k), args.dappId)
           after  == DappIn(DappsAfter(k), args.dappId)
       IN  /\ args.versionId \in DOMAIN before.versions
           /\ before.versions[args.versionId].status = "Published"
           /\ before.latestVersionId # args.versionId
           /\ after.versions[args.versionId].name = args.name
           /\ after.versions[args.versionId].status = "Published"

\* positions of the pause, unpause and deprecate events among the scanned
\* events
StatusSteps ==
  {k \in DOMAIN ScannedRegistryLogs :
     ScannedRegistryLogs[k].topics[1]
       \in {"DappPaused", "DappUnpaused", "DappDeprecated"}}

\* the status a pause, unpause or deprecate event writes
StatusWrittenBy(kind) ==
  IF kind = "DappPaused" THEN "Paused"
  ELSE IF kind = "DappUnpaused" THEN "Published"
  ELSE "Deprecated"

\* C21: folding a pause, unpause or deprecate event for (dappId, versionId)
\* sets the status of that version record to Paused, Published or
\* Deprecated; the record's rootCid, name, version label and description,
\* the dapp's latestVersionId, its other versions and the other dapps are
\* as before, and the row of a dapp that had one is as before when the
\* addressed version is not the dapp's latest.
C21_StatusEventOnlyWritesStatus ==
  (dappRows.called /\ dappRows.status = "ok") =>
    \A k \in StatusSteps :
      LET kind   == ScannedRegistryLogs[k].topics[1]
          args   == ScannedRegistryLogs[k].data
          known  == args.dappId \in DappIdsIn(DappsBefore(k))
          before == DappIn(DappsBefore(k), args.dappId)
          after  == DappIn(DappsAfter(k), args.dappId)
          old    == IF args.versionId \in DOMAIN before.versions
                      THEN before.versions[args.versionId]
                      ELSE [versionId |-> args.versionId,
                            rootCid |-> UndefinedText, name |-> UndefinedText,
                            version |-> UndefinedText,
                            description |-> UndefinedText,
                            status |-> "undefined"]
          new    == after.versions[args.versionId]
      IN  /\ DOMAIN after.versions = DOMAIN before.versions \cup {args.versionId}
          /\ new.status = StatusWrittenBy(kind)
          /\ new.rootCid = old.rootCid
          /\ new.name = old.name
          /\ new.version = old.version
          /\ new.description = old.description
          /\ after.latestVersionId = before.latestVersionId
          /\ \A v \in DOMAIN before.versions :
               v # args.versionId => after.versions[v] = before.versions[v]
          /\ DappIdsIn(DappsAfter(k)) = DappIdsIn(DappsBefore(k)) \cup {args.dappId}
          /\ \A d \in DappIdsIn(DappsBefore(k)) :
               d # args.dappId => DappIn(DappsAfter(k), d) = DappIn(DappsBefore(k), d)
          /\ (known /\ args.versionId # before.latestVersionId) =>
               DappRowOf(after) = DappRowOf(before)

\* a pause was folded onto a published version that is not the latest of its
\* dapp: the version is paused and the row of the dapp is the one it had
C21_Witness ==
  /\ dappRows.called
  /\ dappRows.status = "ok"
  /\ \E k \in StatusSteps :
       LET args   == ScannedRegistryLogs[k].data
           before == DappIn(DappsBefore(k), args.dappId)
           after  == DappIn(DappsAfter(k), args.dappId)
       IN  /\ ScannedRegistryLogs[k].topics[1] = "DappPaused"
           /\ args.dappId \in DappIdsIn(DappsBefore(k))
           /\ args.versionId \in DOMAIN before.versions
           /\ before.versions[args.versionId].status = "Published"
           /\ before.latestVersionId # args.versionId
           /\ after.versions[args.versionId].status = "Paused"
           /\ DappRowOf(after) = DappRowOf(before)

\* positions of the publish and upgrade events of a dapp among the scanned
\* events
ReleaseSteps(dappId) ==
  {k \in DOMAIN ScannedRegistryLogs :
     /\ ScannedRegistryLogs[k].topics[1] \in {"DappPublished", "DappUpgraded"}
     /\ ScannedRegistryLogs[k].data.dappId = dappId}

LastRelease(dappId) ==
  CHOOSE k \in ReleaseSteps(dappId) : \A j \in ReleaseSteps(dappId) : j <= k

\* positions of the status events for (dappId, versionId) behind position k
StatusStepsBehind(k, dappId, versionId) ==
  {j \in StatusSteps :
     /\ j > k
     /\ ScannedRegistryLogs[j].data.dappId = dappId
     /\ ScannedRegistryLogs[j].data.versionId = versionId}

\* C22: a listed dapp with a publish or upgrade event has as latestVersionId
\* the versionId of its last publish or upgrade event in chain order, and
\* its row shows that version with the rootCid of that event and the status
\* Published, or the status of the last pause, unpause or deprecate event
\* for that version behind it.
C22_LatestIsLastRelease ==
  (dappRows.called /\ dappRows.status = "ok") =>
    \A d \in DappIdsIn(FoldedDapps) :
      ReleaseSteps(d) # {} =>
        LET last   == ScannedRegistryLogs[LastRelease(d)]
            behind == StatusStepsBehind(LastRelease(d), d, last.data.versionId)
            dapp   == DappIn(FoldedDapps, d)
        IN  /\ dapp.latestVersionId = last.data.versionId
            /\ \E n \in DOMAIN dappRows.rows :
                 LET row == dappRows.rows[n]
                 IN  /\ row.dappId = d
                     /\ row.versionId = last.data.versionId
                     /\ row.rootCid = <<last.block, last.index + 1>>
                     /\ behind = {} => row.status = "Published"
                     /\ behind # {} =>
                          row.status =
                            StatusWrittenBy(
                              ScannedRegistryLogs[
                                CHOOSE j \in behind : \A i \in behind : i <= j
                              ].topics[1])

\* a dapp released twice, the last release with the lower versionId, is
\* listed with that lower version
C22_Witness ==
  /\ dappRows.called
  /\ dappRows.status = "ok"
  /\ \E d \in DappIdsIn(FoldedDapps) :
       /\ Cardinality(ReleaseSteps(d)) >= 2
       /\ \E j \in ReleaseSteps(d) :
            ScannedRegistryLogs[j].data.versionId
              > ScannedRegistryLogs[LastRelease(d)].data.versionId
       /\ \E n \in DOMAIN dappRows.rows :
            /\ dappRows.rows[n].dappId = d
            /\ dappRows.rows[n].versionId
                 = ScannedRegistryLogs[LastRelease(d)].data.versionId

\* the refreshes whose Promise.all has not settled yet
Unsettled == {i \in DOMAIN app.refreshes : app.refreshes[i].outcome = "pending"}

\* C23: once every refresh that was started has completed, the visible
\* proposals and dapps are those of the refresh that completed last with a
\* result, whichever refresh was started first.
C23_LastCompletedRefreshIsVisible ==
  (Unsettled = {} /\ app.completions # <<>>) =>
    /\ app.proposals = app.completions[Len(app.completions)]
    /\ app.dapps = app.completions[Len(app.completions)]

\* two refreshes overlapped and the one started first completed last: its
\* result is the visible one
C23_Witness ==
  /\ Unsettled = {}
  /\ Len(app.completions) >= 2
  /\ app.completions[Len(app.completions)]
       < app.completions[Len(app.completions) - 1]
  /\ app.proposals = app.completions[Len(app.completions)]

\* refresh i has a listing scanning the chain
InFlight(i) ==
  app.refreshes[i].proposals = "pending" \/ app.refreshes[i].dapps = "pending"

\* C24: no two refreshes of the same (account, chainId) have their scans in
\* flight together, whether the effect or a submission started them.
C24_SameIdentityScansCoalesced ==
  \A i, j \in DOMAIN app.refreshes :
     (i # j /\ InFlight(i) /\ InFlight(j))
        => app.refreshes[i].key # app.refreshes[j].key

\* one of publicClient, walletClient, account and network is missing
Missing(clients) ==
  \/ ~clients.publicClient
  \/ ~clients.walletClient
  \/ clients.account = NoAddress
  \/ clients.chainId # SupportedChainId

\* C25: a governance handler called while publicClient, walletClient, the
\* account or a supported network is missing reports "Wallet/network not
\* ready", issues no read of the chain and no wallet write.
C25_HandlersNeedClients ==
  (app.last.handler # "none" /\ Missing(app.last.clients)) =>
    /\ app.last.reported = "Wallet/network not ready"
    /\ app.status = "Wallet/network not ready"
    /\ app.last.reads = 0
    /\ app.last.writes = 0

\* onCastVote was called with a public client, an account and the supported
\* chain but no wallet client, while results of a refresh were visible
C25_Witness ==
  /\ app.last.handler = "onCastVote"
  /\ app.last.clients.publicClient
  /\ ~app.last.clients.walletClient
  /\ app.last.clients.account # NoAddress
  /\ app.last.clients.chainId = SupportedChainId
  /\ app.last.reported = "Wallet/network not ready"
  /\ app.last.writes = 0
  /\ app.proposals # 0

\* C28: the visible proposals and dapps change only in the step in which
\* both listings of one refresh have resolved, and then both become the
\* results of that refresh; a refresh that fails its precondition or one of
\* whose listings rejects changes neither, so both are always the results
\* of one and the same refresh.
C28_RefreshPublishesBothOrNothing ==
  /\ [](app.proposals = app.dapps)
  /\ [][(app'.proposals # app.proposals \/ app'.dapps # app.dapps) =>
          \E i \in DOMAIN app.refreshes :
             /\ app.refreshes[i].outcome = "pending"
             /\ \/ app.refreshes[i].proposals = "ok"
                \/ app.refreshes[i].dapps = "ok"
             /\ app'.completions = Append(app.completions, i)
             /\ app'.proposals = i
             /\ app'.dapps = i]_vars

\* the listProposals of the second refresh rejected while its listDapps was
\* still scanning, and the results of the first are still the visible ones
C28_Witness ==
  /\ app.proposals = 1
  /\ app.dapps = 1
  /\ Len(app.refreshes) >= 2
  /\ app.refreshes[2].outcome = "failed"
  /\ app.refreshes[2].proposals = "rejected"
  /\ app.refreshes[2].dapps = "pending"
  /\ app.status = "eth_getLogs failed"

\* a scan that queried its windows to the end
ScannedToHead ==
  /\ fetched.called
  /\ fetched.rpc = NoFailure
  /\ fetched.fromBlock <= fetched.latestBlock

\* C26 as stated: every queried window [start, end] holds at most
\* DEFAULT_LOG_CHUNK_SIZE blocks, end - start + 1 <= DEFAULT_LOG_CHUNK_SIZE.
C26_WindowsHoldAtMostChunkSizeBlocks ==
  ScannedToHead =>
    \A w \in DOMAIN fetched.windows :
       fetched.windows[w][2] - fetched.windows[w][1] + 1 <= DEFAULT_LOG_CHUNK_SIZE

\* C26, amended: every queried window [start, end] is an inclusive range
\* with end - start <= DEFAULT_LOG_CHUNK_SIZE, so of at most
\* DEFAULT_LOG_CHUNK_SIZE + 1 blocks; the first window starts at fromBlock,
\* each next one starts at the previous end + 1, every window but the last
\* spans DEFAULT_LOG_CHUNK_SIZE + 1 blocks, and the last one ends at the
\* head, where the loop stops.
C26_WindowsAdjacentAndBounded ==
  ScannedToHead =>
    LET windows == fetched.windows
        n       == Len(windows)
    IN  /\ n >= 1
        /\ windows[1][1] = fetched.fromBlock
        /\ windows[n][2] = fetched.latestBlock
        /\ \A w \in 1..n :
             /\ windows[w][1] <= windows[w][2]
             /\ windows[w][2] - windows[w][1] <= DEFAULT_LOG_CHUNK_SIZE
        /\ \A w \in 1..(n - 1) :
             /\ windows[w + 1][1] = windows[w][2] + 1
             /\ windows[w][2] - windows[w][1] = DEFAULT_LOG_CHUNK_SIZE
             /\ windows[w][2] < fetched.latestBlock

\* a scan of three windows, the first two of DEFAULT_LOG_CHUNK_SIZE + 1
\* blocks and the last one shorter
C26_Witness ==
  /\ ScannedToHead
  /\ Len(fetched.windows) = 3
  /\ fetched.windows[1][2] - fetched.windows[1][1] + 1 = DEFAULT_LOG_CHUNK_SIZE + 1
  /\ fetched.windows[3][2] = fetched.windows[3][1]
  /\ fetched.windows[3][2] = fetched.latestBlock

\* the rows the registry's events up to block h project to
RowsAsOf(h) ==
  RowsOfDapps(FoldEntries(<<>>, SelectSeq(chainLogs, LAMBDA l : l.block <= h)))

\* C27: the rows of one listDapps call are the projection of the registry's
\* events up to one block height h, also when the head advances while the
\* six scans read it.
C27_RowsAreOneSnapshot ==
  (dappRows.called /\ dappRows.status = "ok") =>
    \E h \in 0..chainHead : dappRows.rows = RowsAsOf(h)

\* the state reads of the listing with every failed read answered (Active)
AnsweredReads ==
  [p \in DOMAIN listed.stateReads |->
     IF listed.stateReads[p].ok THEN listed.stateReads[p] ELSE ReadOk(1)]

\* the rows the listing would return had every state read been answered
RowsWithEveryRead ==
  ListProposalsOf(chainLogs, listed.latestBlock, listed.fromBlock,
                  AnsweredReads, NoFailure).rows

\* the decoded creation logs the listing scanned whose state read failed
FailedReadLogs ==
  {l \in Range(ScannedCreationLogs) :
     l.data.decodes = "ok" /\ ~listed.stateReads[l.data.proposalId].ok}

\* C29: when the state read of a decoded creation log fails, the listing
\* still succeeds and returns the rows it would return with every read
\* answered, in the same order, without the proposals whose read failed.
C29_FailedStateReadDropsOneProposal ==
  (listed.called /\ listed.rpc = NoFailure) =>
    /\ listed.status = "ok"
    /\ listed.rows =
         SelectSeq(RowsWithEveryRead,
                   LAMBDA row : listed.stateReads[row.proposalId].ok)
    /\ \A l \in FailedReadLogs :
         \A i \in DOMAIN listed.rows :
            listed.rows[i].proposalId # l.data.proposalId

\* three proposals were scanned, the state read of the one in the middle of
\* the order failed, and the other two are listed in their order
C29_Witness ==
  /\ listed.called
  /\ listed.status = "ok"
  /\ Cardinality(FailedReadLogs) = 1
  /\ Len(RowsWithEveryRead) = 3
  /\ ~listed.stateReads[Head(Tail(RowsWithEveryRead)).proposalId].ok
  /\ listed.rows = <<Head(RowsWithEveryRead),
                     Head(Tail(Tail(RowsWithEveryRead)))>>

\* the dapps addressed by the events the listing scanned
ScannedDappIds ==
  {ScannedRegistryLogs[k].data.dappId : k \in DOMAIN ScannedRegistryLogs}

\* positions of the scanned events that address (dappId, versionId)
StepsAddressing(dappId, versionId) ==
  {k \in DOMAIN ScannedRegistryLogs :
     /\ ScannedRegistryLogs[k].data.dappId = dappId
     /\ ScannedRegistryLogs[k].data.versionId = versionId}

\* the row of a dapp for which nothing is recorded under version 0
UnknownRow(dappId) ==
  [dappId |-> dappId, versionId |-> 0, name |-> <<>>, version |-> <<>>,
   description |-> <<>>, status |-> "Unknown", rootCid |-> <<>>]

\* C30: a dapp whose scanned events hold no publish and no upgrade event
\* still has exactly one row, with versionId 0; unless one of its events
\* addressed version 0, the row has status Unknown and empty rootCid, name,
\* version and description, whatever was recorded for its other versions.
C30_UnreleasedDappHasVersionZeroRow ==
  (dappRows.called /\ dappRows.status = "ok") =>
    \A d \in ScannedDappIds :
      ReleaseSteps(d) = {} =>
        /\ Cardinality({n \in DOMAIN dappRows.rows :
                          dappRows.rows[n].dappId = d}) = 1
        /\ \A n \in DOMAIN dappRows.rows :
             dappRows.rows[n].dappId = d =>
               /\ dappRows.rows[n].versionId = 0
               /\ StepsAddressing(d, 0) = {} =>
                    dappRows.rows[n] = UnknownRow(d)

\* a dapp with a metadata event and a pause event for versions other than 0,
\* and no publish or upgrade event, is listed with the row of version 0
C30_Witness ==
  /\ dappRows.called
  /\ dappRows.status = "ok"
  /\ \E d \in ScannedDappIds :
       /\ ReleaseSteps(d) = {}
       /\ StepsAddressing(d, 0) = {}
       /\ \E k \in MetadataSteps : ScannedRegistryLogs[k].data.dappId = d
       /\ \E k \in StatusSteps :
            /\ ScannedRegistryLogs[k].data.dappId = d
            /\ ScannedRegistryLogs[k].topics[1] = "DappPaused"
       /\ \E n \in DOMAIN dappRows.rows : dappRows.rows[n] = UnknownRow(d)

====
